---- MODULE Spec2Model ----
(***************************************************************************)
(* Merit-list web application: the storage relations (students, subjects,  *)
(* marks), the MeritList component (loadMeritList, filterMeritList,        *)
(* exportToPDF, exportToExcel), the MarksEntry component                   *)
(* (handleStudentSelect, loadStudentMarks, handleMarksSubmit,              *)
(* handleSubjectSubmit) and the storage side of StudentManagement          *)
(* (handleSubmit, handleDelete).                                           *)
(*                                                                         *)
(* Text that the code only compares for equality (ids, semester labels) is *)
(* a TLA+ string; text the code takes apart (names, roll numbers, the      *)
(* search box, numeric input boxes) is a sequence of one-character         *)
(* strings.                                                                *)
(***************************************************************************)
EXTENDS Integers, Sequences, FiniteSets, Bags, TLC

VARIABLES
    \* ---- storage (supabase tables)
    students,        \* set of student rows
    subjects,        \* set of subject rows
    marks,           \* bag of mark rows (the row's uuid is its identity)
    storageOps,      \* student and subject rows added and deleted so far
    \* ---- MeritList component
    heap,            \* the MeritListEntry objects, by reference
    meritList,       \* useState: sequence of references into heap
    filteredList,    \* useState: sequence of references into heap
    loading,         \* useState
    selectedSemester,\* useState (filter control)
    searchTerm,      \* useState (filter control)
    minPercentage,   \* useState (filter control, text of a number box)
    maxPercentage,   \* useState (filter control, text of a number box)
    minBox,          \* the text the Min % box shows
    maxBox,          \* the text the Max % box shows
    download,        \* the file an export has handed to the browser
    effectPending,   \* the useEffect(filterMeritList) is scheduled
    loadPc,          \* position of the async loadMeritList
    mlStudentsData,  \* loadMeritList local: studentsData
    mlMarksData,     \* loadMeritList local: marksData
    mlSubjectsData,  \* loadMeritList local: subjectsData
    \* ---- MarksEntry component
    meStudents,      \* useState students (snapshot made by loadData)
    meSubjects,      \* useState subjects (snapshot made by loadData)
    meLoadPending,   \* a loadData() call is in flight
    selectedStudent, \* useState
    marksData,       \* useState: subject id -> number
    inflight,        \* loadStudentMarks requests not yet answered
    subPc,           \* position of the async handleMarksSubmit
    subStudent,      \* handleMarksSubmit closure: selectedStudent
    subData,         \* handleMarksSubmit closure: marksData
    subBefore,       \* history: the rows stored for subStudent's student and
                     \* semester when the save under way began, kept while
                     \* the save has not succeeded
    marksDataOf,     \* history: id of the student whose stored rows
                     \* loadStudentMarks last put into marksData, "" if none
    history,         \* whether this run keeps the two history variables
    \* ---- a MarksEntry component in another browser session
    otherPc,         \* position of its handleMarksSubmit
    otherData,       \* its handleMarksSubmit closure: marksData
    \* ---- ToastProvider
    toasts,          \* useState toasts
    timers,          \* the setTimeout calls of showToast that have not fired
    toastCount,      \* how many toasts have been shown
    now,             \* the time in ms
    \* ---- StudentManagement component (the form)
    formData,        \* useState
    formErrors,      \* useState: field -> message
    saving,          \* useState
    showAddForm,     \* useState
    editingStudent,  \* useState
    saveRequest,     \* the insert or update of handleSubmit not yet answered
    \* ---- AuthProvider and the router
    user,            \* useState
    authLoading,     \* useState loading
    path,            \* the location
    sessionPending,  \* getSession() has not been answered
    authCalls        \* signInWithPassword and signOut calls not yet answered,
                     \* auth events not yet handed to the listener

dbVars == <<students, subjects, marks, storageOps>>
mlVars == <<heap, meritList, filteredList, loading, selectedSemester, searchTerm,
            minPercentage, maxPercentage, minBox, maxBox, download, effectPending,
            loadPc, mlStudentsData, mlMarksData, mlSubjectsData>>
meVars == <<meStudents, meSubjects, meLoadPending, selectedStudent, marksData,
            inflight, subPc, subStudent, subData, subBefore, marksDataOf, history>>
otherVars == <<otherPc, otherData>>
toastVars == <<toasts, timers, toastCount, now>>
smVars == <<formData, formErrors, saving, showAddForm, editingStudent, saveRequest>>
authVars == <<user, authLoading, path, sessionPending, authCalls>>
restVars == <<otherVars, toastVars, smVars, authVars>>
vars == <<dbVars, mlVars, meVars, restVars>>

-----------------------------------------------------------------------------
(* Bounds of the model *)

\* most mark rows in the storage when the MeritList component is mounted
MaxMarkRows == 2
\* most students of the storage behind the exports
MaxEntries == 31
\* most student and subject rows added and deleted in one run
MaxStorageOps == 2
\* largest number typed into a marks box
MaxTyped == 3

-----------------------------------------------------------------------------
(* Text *)

Digits == <<"0", "1", "2", "3", "4", "5", "6", "7", "8", "9">>

DigitValue(c) == (CHOOSE i \in DOMAIN Digits : Digits[i] = c) - 1

IsDigit(c) == \E i \in DOMAIN Digits : Digits[i] = c

\* the value NaN of a JavaScript number
NaN == [nan |-> TRUE]

Num(n) == [nan |-> FALSE, val |-> n]

RECURSIVE LeadingDigits(_)
LeadingDigits(s) ==
    IF s = <<>> \/ ~IsDigit(Head(s)) THEN <<>>
    ELSE <<Head(s)>> \o LeadingDigits(Tail(s))

RECURSIVE DigitsToNat(_)
DigitsToNat(s) ==
    IF s = <<>> THEN 0
    ELSE 10 * DigitsToNat(SubSeq(s, 1, Len(s) - 1)) + DigitValue(s[Len(s)])

\* parseInt / parseFloat on the text of an unsigned whole number: the longest
\* numeric prefix, NaN when there is none
ParseNumber(s) ==
    LET d == LeadingDigits(s)
    IN  IF d = <<>> THEN NaN ELSE Num(DigitsToNat(d))

\* the text of an unsigned whole number
IsNumberText(s) == s # <<>> /\ \A i \in DOMAIN s : IsDigit(s[i])

\* variant: an input that hands on whatever text was typed
TextInputValue(raw) == raw

\* the value of an <input type="number">: the text typed when it is a number,
\* the empty string when it is not
NumberInputValue(raw) == IF IsNumberText(raw) THEN raw ELSE <<>>

\* Number.prototype.toString of a natural number
RECURSIVE NatToText(_)
NatToText(n) ==
    IF n < 10 THEN <<Digits[n + 1]>>
    ELSE NatToText(n \div 10) \o <<Digits[(n % 10) + 1]>>

UpperToLower == [c \in {"A", "B", "C", "R"} |->
                    CASE c = "A" -> "a" [] c = "B" -> "b"
                      [] c = "C" -> "c" [] c = "R" -> "r"]

toLowerCase(s) ==
    [i \in DOMAIN s |-> IF s[i] \in DOMAIN UpperToLower THEN UpperToLower[s[i]] ELSE s[i]]

\* String.prototype.includes
includes(s, t) ==
    \E i \in 0..(Len(s) - Len(t)) : SubSeq(s, i + 1, i + Len(t)) = t

\* order of the letters under the storage's text collation
Alphabet == <<"0", "1", "2", "3", "4", "5", "6", "7", "8", "9",
              "a", "A", "b", "B", "c", "C", "l", "n", "o", "r", "R", "y">>

CharRank(c) == CHOOSE i \in DOMAIN Alphabet : Alphabet[i] = c

RECURSIVE TextLeq(_, _)
TextLeq(a, b) ==
    IF a = <<>> THEN TRUE
    ELSE IF b = <<>> THEN FALSE
    ELSE IF CharRank(Head(a)) # CharRank(Head(b)) THEN CharRank(Head(a)) < CharRank(Head(b))
    ELSE TextLeq(Tail(a), Tail(b))

-----------------------------------------------------------------------------
(* Storage *)

Semesters == {"S1", "S2"}

\* the subject rows: id, max_marks and semester
SubjectX == [id |-> "X", max_marks |-> 2, semester |-> "S1"]
SubjectY == [id |-> "Y", max_marks |-> 1, semester |-> "S2"]
AllSubjects == {SubjectX, SubjectY}

\* the student rows but for their semester, which the management screen edits
StudentBase ==
    { [id |-> "s1", name |-> <<"B", "o">>, roll_number |-> <<"R", "1">>],
      [id |-> "s2", name |-> <<"A", "l">>, roll_number |-> <<"R", "2">>] }

StudentRow(b, sem) ==
    [id |-> b.id, name |-> b.name, roll_number |-> b.roll_number, semester |-> sem]

MarkRow(sid, subid, m, sem) ==
    [student_id |-> sid, subject_id |-> subid, marks |-> m, semester |-> sem]

Triple(row) == <<row.student_id, row.subject_id, row.semester>>

\* UNIQUE(student_id, subject_id, semester)
UniqueTriple(B, rows) ==
    /\ \A r \in rows : \A q \in BagToSet(B) : Triple(q) # Triple(r)
    /\ \A r, q \in rows : Triple(q) = Triple(r) => q = r

\* REFERENCES students(id), REFERENCES subjects(id)
ForeignKeysOk(rows) ==
    \A r \in rows :
        /\ \E s \in students : s.id = r.student_id
        /\ \E s \in subjects : s.id = r.subject_id

\* variant: a marks table without its UNIQUE constraint
ForeignKeysOnly(B, rows) == ForeignKeysOk(rows)

\* the constraints of CREATE TABLE marks on an insert of rows
MarksConstraintsOk(B, rows) == UniqueTriple(B, rows) /\ ForeignKeysOk(rows)

\* .delete().eq('student_id', sid).eq('semester', sem)
DeleteMarks(B, sid, sem) ==
    LET keep == {r \in BagToSet(B) : ~(r.student_id = sid /\ r.semester = sem)}
    IN  [r \in keep |-> B[r]]

\* .insert(rows), once the constraints let it through
InsertMarks(B, rows) == B (+) SetToBag(rows)

\* every order in which a query without ORDER BY may return the rows of a bag
AllOrders(B) ==
    {f \in [1..BagCardinality(B) -> BagToSet(B)] :
        \A r \in BagToSet(B) : Cardinality({i \in DOMAIN f : f[i] = r}) = CopiesIn(r, B)}

\* from('students').select('*').order('name')
StudentsByName(S) ==
    {f \in AllOrders(SetToBag(S)) :
        \A i, j \in DOMAIN f : i < j => TextLeq(f[i].name, f[j].name)}

\* variant: a left join, which returns a mark without a subject row as well
LeftJoinSubject(B, S) ==
    LET joined(r) == [student_id |-> r.student_id, subject_id |-> r.subject_id,
                      marks |-> r.marks, semester |-> r.semester,
                      subjects |-> IF \E s \in S : s.id = r.subject_id
                                   THEN CHOOSE s \in S : s.id = r.subject_id
                                   ELSE [id |-> r.subject_id, max_marks |-> 0,
                                         semester |-> r.semester]]
    IN  [j \in {joined(r) : r \in BagToSet(B)} |->
            B[CHOOSE r \in BagToSet(B) : joined(r) = j]]

\* from('marks').select('*, subjects!inner(*)'): each mark row with its subject
\* row embedded; a mark without a subject row is not returned
JoinSubject(B, S) ==
    LET joined(r) == [student_id |-> r.student_id, subject_id |-> r.subject_id,
                      marks |-> r.marks, semester |-> r.semester,
                      subjects |-> CHOOSE s \in S : s.id = r.subject_id]
        have == {r \in BagToSet(B) : \E s \in S : s.id = r.subject_id}
    IN  [j \in {joined(r) : r \in have} |->
            B[CHOOSE r \in have : joined(r) = j]]

-----------------------------------------------------------------------------
(* MeritList.loadMeritList: the aggregation *)

\* a percentage is the exact quotient num / den, den > 0
PctValue(n, d) == [num |-> n, den |-> d]

PctLeq(p, q) == p.num * q.den <= q.num * p.den

PctEq(p, q) == p.num * q.den = q.num * p.den

\* percentage >= x and percentage <= x for a JavaScript number x: false on NaN
PctAtLeast(p, x) == ~x.nan /\ p.num >= x.val * p.den

\* variant: percentage < x
PctBelow(p, x) == ~x.nan /\ p.num < x.val * p.den

PctAtMost(p, x) == ~x.nan /\ p.num <= x.val * p.den

\* variant: grouping under the semester of the subject row
GroupSubjectSemester(mark) == mark.subjects.semester

\* the semester a mark row is grouped under
GroupSemester(mark) == mark.semester

\* studentMarks[sid][sem]: the marks of one student under one semester label,
\* in the order of marksData
RECURSIVE studentMarks(_, _, _)
studentMarks(md, sid, sem) ==
    IF md = <<>> THEN <<>>
    ELSE LET mark == Head(md)
             rest == studentMarks(Tail(md), sid, sem)
         IN  IF mark.student_id = sid /\ GroupSemester(mark) = sem
             THEN <<[subject |-> mark.subjects, marks |-> mark.marks]>> \o rest
             ELSE rest

\* variant: no student is left out
NeverSkipped(semesterMarks) == FALSE

\* if (!semesterMarks || semesterMarks.length === 0) return;
NoSemesterMarks(semesterMarks) == Len(semesterMarks) = 0

RECURSIVE SumMarks(_)
SumMarks(items) ==
    IF items = <<>> THEN 0 ELSE Head(items).marks + SumMarks(Tail(items))

RECURSIVE SumMaxMarks(_)
SumMaxMarks(items) ==
    IF items = <<>> THEN 0 ELSE Head(items).subject.max_marks + SumMaxMarks(Tail(items))

\* variant: (totalMarks / maxMarks) * 100 whatever maxMarks is
UnguardedPercentage(totalMarks, maxMarks) == PctValue(100 * totalMarks, maxMarks)

\* maxMarks > 0 ? (totalMarks / maxMarks) * 100 : 0
Percentage(totalMarks, maxMarks) ==
    IF maxMarks > 0 THEN PctValue(100 * totalMarks, maxMarks) ELSE PctValue(0, 1)

NewEntry(student, semesterMarks) ==
    [student |-> student,
     subjects |-> semesterMarks,
     total_marks |-> SumMarks(semesterMarks),
     max_marks |-> SumMaxMarks(semesterMarks),
     percentage |-> Percentage(SumMarks(semesterMarks), SumMaxMarks(semesterMarks)),
     rank |-> 0]

\* studentsData.forEach(student => ... entries.push(...))
RECURSIVE CreateEntries(_, _)
CreateEntries(sd, md) ==
    IF sd = <<>> THEN <<>>
    ELSE LET student == Head(sd)
             semesterMarks == studentMarks(md, student.id, student.semester)
             rest == CreateEntries(Tail(sd), md)
         IN  IF NoSemesterMarks(semesterMarks) THEN rest
             ELSE <<NewEntry(student, semesterMarks)>> \o rest

\* variant: (a, b) => a.percentage - b.percentage
CompareAscending(a, b) ==
    LET d == a.percentage.num * b.percentage.den - b.percentage.num * a.percentage.den
    IN  IF d < 0 THEN -1 ELSE IF d > 0 THEN 1 ELSE 0

\* (a, b) => b.percentage - a.percentage, as its sign
CompareEntries(a, b) ==
    LET d == b.percentage.num * a.percentage.den - a.percentage.num * b.percentage.den
    IN  IF d < 0 THEN -1 ELSE IF d > 0 THEN 1 ELSE 0

\* variant: a sort that moves an element in front of its equals
StaysInFrontStrict(a, b) ==
    b.percentage.num * a.percentage.den - a.percentage.num * b.percentage.den < 0

\* Array.prototype.sort is stable: an element stays in front of a later one
\* unless the comparator puts the later one first
StaysInFront(a, b) == CompareEntries(a, b) <= 0

RECURSIVE InsertSorted(_, _)
InsertSorted(x, sorted) ==
    IF sorted = <<>> THEN <<x>>
    ELSE IF StaysInFront(Head(sorted), x)
         THEN <<Head(sorted)>> \o InsertSorted(x, Tail(sorted))
         ELSE <<x>> \o sorted

RECURSIVE SortEntries(_)
SortEntries(entries) ==
    IF entries = <<>> THEN <<>>
    ELSE InsertSorted(entries[Len(entries)],
                      SortEntries(SubSeq(entries, 1, Len(entries) - 1)))

\* entry.rank = index + 1, for the 0-based index of forEach
RankAt(index) == index + 1

AssignRanks(entries) ==
    [i \in DOMAIN entries |-> [entries[i] EXCEPT !.rank = RankAt(i - 1)]]

ComputeMeritList(sd, md) == AssignRanks(SortEntries(CreateEntries(sd, md)))

\* variant: the check leaves out subjectsData
NoDataButSubjects(sd, md, subd) == ~sd.ok \/ ~md.ok

\* if (!studentsData || !marksData || !subjectsData) return;
NoData(sd, md, subd) == ~sd.ok \/ ~md.ok \/ ~subd.ok

-----------------------------------------------------------------------------
(* MeritList.filterMeritList *)

RECURSIVE FilterRefs(_, _)
FilterRefs(refs, keep) ==
    IF refs = <<>> THEN <<>>
    ELSE IF Head(refs) \in keep THEN <<Head(refs)>> \o FilterRefs(Tail(refs), keep)
    ELSE FilterRefs(Tail(refs), keep)

Range(s) == {s[i] : i \in DOMAIN s}

MatchesSemester(entry, sem) == entry.student.semester = sem

MatchesSearch(entry, term) ==
    \/ includes(toLowerCase(entry.student.name), toLowerCase(term))
    \/ includes(toLowerCase(entry.student.roll_number), toLowerCase(term))

\* variant: the four filters applied whatever the controls hold
PassesApplied(entry, sem, term, minP, maxP) ==
    /\ MatchesSemester(entry, sem)
    /\ MatchesSearch(entry, term)
    /\ PctAtLeast(entry.percentage, ParseNumber(minP))
    /\ PctAtMost(entry.percentage, ParseNumber(maxP))

\* the empty string is falsy: an empty control applies no predicate
Passes(entry, sem, term, minP, maxP) ==
    /\ sem # "" => MatchesSemester(entry, sem)
    /\ term # <<>> => MatchesSearch(entry, term)
    /\ minP # <<>> => PctAtLeast(entry.percentage, ParseNumber(minP))
    /\ maxP # <<>> => PctAtMost(entry.percentage, ParseNumber(maxP))

\* the value of `filtered` after the four conditional filters
Filtered(h, ml, sem, term, minP, maxP) ==
    FilterRefs(ml, {r \in Range(ml) : Passes(h[r], sem, term, minP, maxP)})

\* variant: the filtered entries keep their rank
NoRerank(h, filtered) == h

\* variant: entry.rank = index
RerankFromZero(h, filtered) ==
    [r \in DOMAIN h |->
        IF r \in Range(filtered)
        THEN [h[r] EXCEPT !.rank = (CHOOSE i \in DOMAIN filtered : filtered[i] = r) - 1]
        ELSE h[r]]

\* variant: the ranks are written only when the filter has dropped an entry
RerankIfNarrowed(h, filtered) ==
    [r \in DOMAIN h |->
        IF r \in Range(filtered) /\ Len(filtered) < Len(h)
        THEN [h[r] EXCEPT !.rank = (CHOOSE i \in DOMAIN filtered : filtered[i] = r)]
        ELSE h[r]]

\* filtered.forEach((entry, index) => { entry.rank = index + 1 }): the entry
\* objects are the ones meritList holds
Rerank(h, filtered) ==
    [r \in DOMAIN h |->
        IF r \in Range(filtered)
        THEN [h[r] EXCEPT !.rank = (CHOOSE i \in DOMAIN filtered : filtered[i] = r)]
        ELSE h[r]]

-----------------------------------------------------------------------------
(* Values of the state *)

\* the result of an awaited query: `data` is null (ok = FALSE) or an array
NoRows == [ok |-> FALSE, rows |-> <<>>]

Rows(f) == [ok |-> TRUE, rows |-> f]

\* selectedStudent = null
NoStudent == [id |-> "", name |-> <<>>, roll_number |-> <<>>, semester |-> ""]

\* marksData = {}
NoMarksData == [k \in {} |-> 0]

\* no file is being handed to the browser
NoDownload == [kind |-> "none", name |-> "", rows |-> <<>>]

\* texts offered to the search box and to the Min % and Max % boxes
SearchTerms == {<<>>, <<"b">>, <<"R", "2">>}

\* the two bounds are chosen on a percentage that entries have, so that an
\* entry on the bound tells an inclusive comparison from a strict one
MinPercentTexts == {<<>>, NatToText(100)}

MaxPercentTexts == {<<>>, NatToText(50)}

StudentTables ==
    { {StudentRow(b, f[b.id]) : b \in StudentBase} :
        f \in [{b.id : b \in StudentBase} -> Semesters] }

\* the mark rows the entry screen can have stored: a positive value, at most
\* the subject's max_marks, under any semester label
CandidateRows ==
    { MarkRow(b.id, s.id, m, sem) :
        b \in StudentBase, s \in AllSubjects, m \in 1..2, sem \in Semesters }

MarkTables ==
    { SetToBag(R) : R \in
        { Q \in SUBSET CandidateRows :
            /\ Cardinality(Q) <= MaxMarkRows
            /\ \A r, q \in Q : Triple(r) = Triple(q) => r = q
            /\ \A r \in Q : \A s \in AllSubjects : s.id = r.subject_id => r.marks <= s.max_marks } }

\* the MeritList component right after mounting: both effects have run once,
\* loadMeritList waits for its first query
MeritListMounted ==
    /\ heap = <<>>
    /\ meritList = <<>>
    /\ filteredList = <<>>
    /\ loading = TRUE
    /\ selectedSemester = ""
    /\ searchTerm = <<>>
    /\ minPercentage = <<>>
    /\ maxPercentage = <<>>
    /\ minBox = <<>>
    /\ maxBox = <<>>
    /\ download = NoDownload
    /\ effectPending = FALSE
    /\ loadPc = "students"
    /\ mlStudentsData = NoRows
    /\ mlMarksData = NoRows
    /\ mlSubjectsData = NoRows

\* the MeritList component is not on screen
MeritListUnmounted ==
    /\ heap = <<>>
    /\ meritList = <<>>
    /\ filteredList = <<>>
    /\ loading = TRUE
    /\ selectedSemester = ""
    /\ searchTerm = <<>>
    /\ minPercentage = <<>>
    /\ maxPercentage = <<>>
    /\ minBox = <<>>
    /\ maxBox = <<>>
    /\ download = NoDownload
    /\ effectPending = FALSE
    /\ loadPc = "unmounted"
    /\ mlStudentsData = NoRows
    /\ mlMarksData = NoRows
    /\ mlSubjectsData = NoRows

\* the MarksEntry component is not on screen
MarksEntryUnmounted ==
    /\ meStudents = <<>>
    /\ meSubjects = {}
    /\ meLoadPending = FALSE
    /\ selectedStudent = NoStudent
    /\ marksData = NoMarksData
    /\ inflight = {}
    /\ subPc = "unmounted"
    /\ subStudent = NoStudent
    /\ subData = NoMarksData
    /\ subBefore = {}
    /\ marksDataOf = NoStudent.id

\* no other session is saving marks
OtherSessionIdle ==
    /\ otherPc = "idle"
    /\ otherData = NoMarksData

\* useState<Toast[]>([]): no toast has been shown
NoToasts ==
    /\ toasts = <<>>
    /\ timers = {}
    /\ toastCount = 0
    /\ now = 0

NoFormData == [name |-> <<>>, roll_number |-> <<>>, semester |-> <<>>, batch |-> <<>>]

\* useState<{ [key: string]: string }>({})
NoFormErrors == <<>>

NoRequest == [kind |-> "none"]

\* the useState values of the StudentManagement form
StudentFormClosed ==
    /\ formData = NoFormData
    /\ formErrors = NoFormErrors
    /\ saving = FALSE
    /\ showAddForm = FALSE
    /\ editingStudent = NoStudent
    /\ saveRequest = NoRequest

NoUser == "null"

\* the useState values of AuthProvider, no call of it under way
AuthAtRest ==
    /\ user = NoUser
    /\ authLoading = TRUE
    /\ path = "/"
    /\ sessionPending = FALSE
    /\ authCalls = {}

\* the other parts of the application at rest, no history kept
NoOtherScreens ==
    OtherSessionIdle /\ NoToasts /\ StudentFormClosed /\ AuthAtRest /\ history = FALSE

\* the same, in a run that keeps the history variables
NoOtherScreensWithHistory ==
    OtherSessionIdle /\ NoToasts /\ StudentFormClosed /\ AuthAtRest /\ history = TRUE

-----------------------------------------------------------------------------
(* MeritList: actions *)

\* loadMeritList leaves through catch and finally
LoadThrows ==
    /\ loading' = FALSE
    /\ loadPc' = "caught"
    /\ mlStudentsData' = NoRows
    /\ mlMarksData' = NoRows
    /\ mlSubjectsData' = NoRows
    /\ UNCHANGED <<heap, meritList, filteredList, selectedSemester, searchTerm,
                   minPercentage, maxPercentage, minBox, maxBox, download, effectPending>>

\* the answer to from('students').select('*').order('name'); like every task it
\* runs after the effect scheduled by the render before it
ReadStudents ==
    /\ loadPc = "students"
    /\ ~effectPending
    /\ \/ /\ \E f \in StudentsByName(students) : mlStudentsData' = Rows(f)
          /\ loadPc' = "marks"
          /\ UNCHANGED <<heap, meritList, filteredList, loading, selectedSemester,
                         searchTerm, minPercentage, maxPercentage, effectPending,
                         mlMarksData, mlSubjectsData>>
       \/ /\ mlStudentsData' = NoRows
          /\ loadPc' = "marks"
          /\ UNCHANGED <<heap, meritList, filteredList, loading, selectedSemester,
                         searchTerm, minPercentage, maxPercentage, effectPending,
                         mlMarksData, mlSubjectsData>>
       \/ LoadThrows
    /\ UNCHANGED <<dbVars, meVars, restVars, minBox, maxBox, download>>

\* the answer to from('marks').select('*, subjects!inner(*)')
ReadMarks ==
    /\ loadPc = "marks"
    /\ ~effectPending
    /\ \/ /\ \E f \in AllOrders(JoinSubject(marks, subjects)) : mlMarksData' = Rows(f)
          /\ loadPc' = "subjects"
          /\ UNCHANGED <<heap, meritList, filteredList, loading, selectedSemester,
                         searchTerm, minPercentage, maxPercentage, effectPending,
                         mlStudentsData, mlSubjectsData>>
       \/ /\ mlMarksData' = NoRows
          /\ loadPc' = "subjects"
          /\ UNCHANGED <<heap, meritList, filteredList, loading, selectedSemester,
                         searchTerm, minPercentage, maxPercentage, effectPending,
                         mlStudentsData, mlSubjectsData>>
       \/ LoadThrows
    /\ UNCHANGED <<dbVars, meVars, restVars, minBox, maxBox, download>>

\* the answer to from('subjects').select('*')
ReadSubjects ==
    /\ loadPc = "subjects"
    /\ ~effectPending
    /\ \/ /\ \E f \in AllOrders(SetToBag(subjects)) : mlSubjectsData' = Rows(f)
          /\ loadPc' = "check"
          /\ UNCHANGED <<heap, meritList, filteredList, loading, selectedSemester,
                         searchTerm, minPercentage, maxPercentage, effectPending,
                         mlStudentsData, mlMarksData>>
       \/ /\ mlSubjectsData' = NoRows
          /\ loadPc' = "check"
          /\ UNCHANGED <<heap, meritList, filteredList, loading, selectedSemester,
                         searchTerm, minPercentage, maxPercentage, effectPending,
                         mlStudentsData, mlMarksData>>
       \/ LoadThrows
    /\ UNCHANGED <<dbVars, meVars, restVars, minBox, maxBox, download>>

\* the rest of loadMeritList, which runs in one piece with the third answer:
\* the null check, the aggregation, setMeritList and the finally block
Aggregate ==
    /\ loadPc = "check"
    /\ IF NoData(mlStudentsData, mlMarksData, mlSubjectsData)
       THEN /\ loadPc' = "returned"
            /\ UNCHANGED <<heap, meritList, effectPending>>
       ELSE LET entries == ComputeMeritList(mlStudentsData.rows, mlMarksData.rows)
            IN  /\ heap' = entries
                /\ meritList' = [i \in DOMAIN entries |-> i]
                /\ effectPending' = TRUE
                /\ loadPc' = "done"
    /\ loading' = FALSE
    /\ mlStudentsData' = NoRows
    /\ mlMarksData' = NoRows
    /\ mlSubjectsData' = NoRows
    /\ UNCHANGED <<filteredList, selectedSemester, searchTerm, minPercentage, maxPercentage>>
    /\ UNCHANGED <<dbVars, meVars, restVars, minBox, maxBox, download>>

\* useEffect(() => filterMeritList(), [meritList, selectedSemester, ...])
FilterMeritList ==
    /\ effectPending
    /\ LET filtered == Filtered(heap, meritList, selectedSemester, searchTerm,
                                minPercentage, maxPercentage)
       IN  /\ heap' = Rerank(heap, filtered)
           /\ filteredList' = filtered
    /\ effectPending' = FALSE
    /\ UNCHANGED <<meritList, loading, selectedSemester, searchTerm, minPercentage,
                   maxPercentage, loadPc, mlStudentsData, mlMarksData, mlSubjectsData>>
    /\ UNCHANGED <<dbVars, meVars, restVars, minBox, maxBox, download>>

\* an event handler runs once the scheduled effect has run, not inside the
\* synchronous tail of loadMeritList, and after the browser has taken the file
\* of an export
MeritListIdle ==
    /\ loadPc \notin {"unmounted", "check"}
    /\ ~effectPending
    /\ download = NoDownload

\* the options of the semester select: '' and the semesters of meritList
SemesterOptions == {""} \cup {heap[r].student.semester : r \in Range(meritList)}

SetSelectedSemester ==
    /\ MeritListIdle
    /\ \E sem \in SemesterOptions \ {selectedSemester} : selectedSemester' = sem
    /\ effectPending' = TRUE
    /\ UNCHANGED <<heap, meritList, filteredList, loading, searchTerm, minPercentage,
                   maxPercentage, loadPc, mlStudentsData, mlMarksData, mlSubjectsData>>
    /\ UNCHANGED <<dbVars, meVars, restVars, minBox, maxBox, download>>

SetSearchTerm ==
    /\ MeritListIdle
    /\ \E term \in SearchTerms \ {searchTerm} : searchTerm' = term
    /\ effectPending' = TRUE
    /\ UNCHANGED <<heap, meritList, filteredList, loading, selectedSemester, minPercentage,
                   maxPercentage, loadPc, mlStudentsData, mlMarksData, mlSubjectsData>>
    /\ UNCHANGED <<dbVars, meVars, restVars, minBox, maxBox, download>>

\* a text typed into the Min % box: the box shows it, onChange passes the value
\* of the input to setMinPercentage, and a state that did not change renders
\* nothing and schedules no effect
TypeMinPercentage(raw) ==
    /\ MeritListIdle
    /\ raw # minBox
    /\ minBox' = raw
    /\ minPercentage' = NumberInputValue(raw)
    /\ effectPending' = (NumberInputValue(raw) # minPercentage)
    /\ UNCHANGED <<heap, meritList, filteredList, loading, selectedSemester, searchTerm,
                   maxPercentage, maxBox, download, loadPc, mlStudentsData, mlMarksData,
                   mlSubjectsData>>
    /\ UNCHANGED <<dbVars, meVars, restVars>>

TypeMaxPercentage(raw) ==
    /\ MeritListIdle
    /\ raw # maxBox
    /\ maxBox' = raw
    /\ maxPercentage' = NumberInputValue(raw)
    /\ effectPending' = (NumberInputValue(raw) # maxPercentage)
    /\ UNCHANGED <<heap, meritList, filteredList, loading, selectedSemester, searchTerm,
                   minPercentage, minBox, download, loadPc, mlStudentsData, mlMarksData,
                   mlSubjectsData>>
    /\ UNCHANGED <<dbVars, meVars, restVars>>

\* a number is typed into the Min % box, or the box is emptied
SetMinPercentage == \E text \in MinPercentTexts : TypeMinPercentage(text)

\* a number is typed into the Max % box, or the box is emptied
SetMaxPercentage == \E text \in MaxPercentTexts : TypeMaxPercentage(text)

\* the Clear Filters button. A box whose state was '' already is not written
\* to, and goes on showing a text that is not a number
ClearFilters ==
    /\ MeritListIdle
    /\ <<selectedSemester, searchTerm, minPercentage, maxPercentage>> # <<"", <<>>, <<>>, <<>>>>
    /\ selectedSemester' = ""
    /\ searchTerm' = <<>>
    /\ minPercentage' = <<>>
    /\ maxPercentage' = <<>>
    /\ minBox' = (IF minPercentage = <<>> THEN minBox ELSE <<>>)
    /\ maxBox' = (IF maxPercentage = <<>> THEN maxBox ELSE <<>>)
    /\ effectPending' = TRUE
    /\ UNCHANGED <<heap, meritList, filteredList, loading, download, loadPc,
                   mlStudentsData, mlMarksData, mlSubjectsData>>
    /\ UNCHANGED <<dbVars, meVars, restVars>>

\* the storage as the MeritList component finds it, and the component mounted
InitMerit ==
    /\ storageOps = 0
    /\ students \in StudentTables
    /\ subjects = AllSubjects
    /\ marks \in MarkTables
    /\ MeritListMounted
    /\ MarksEntryUnmounted
    /\ NoOtherScreens

NextMerit ==
    \/ ReadStudents
    \/ ReadMarks
    \/ ReadSubjects
    \/ Aggregate
    \/ FilterMeritList
    \/ SetSelectedSemester
    \/ SetSearchTerm
    \/ SetMinPercentage
    \/ SetMaxPercentage
    \/ ClearFilters

SpecMerit == InitMerit /\ [][NextMerit]_vars

\* a subject row with max_marks 0: the subjects table has no CHECK on it
SubjectZ == [id |-> "Z", max_marks |-> 0, semester |-> "S1"]

\* the students table of the runs below: both students in S1
StudentsInS1 == {StudentRow(b, "S1") : b \in StudentBase}

\* the marks tables with rows for the given subject ids, whatever the subjects
\* table holds: the UNIQUE constraint is all that is asked of them
TablesOver(subjectIds) ==
    { SetToBag(Q) : Q \in
        { R \in SUBSET { MarkRow(b.id, sid, m, sem) :
                            b \in StudentBase, sid \in subjectIds, m \in 1..2,
                            sem \in Semesters } :
            /\ Cardinality(R) <= MaxMarkRows
            /\ \A r, q \in R : Triple(r) = Triple(q) => r = q } }

\* a storage in which marks may point to a subject row that is not there (Y).
\* REFERENCES subjects(id) ON DELETE CASCADE keeps a database built from the
\* migration out of these states; they are the ones a database without that
\* constraint can be in, and the marks query is what meets them
InitDangling ==
    /\ storageOps = 0
    /\ students = StudentsInS1
    /\ subjects = {SubjectX}
    /\ marks \in TablesOver({SubjectX.id, SubjectY.id})
    /\ MeritListMounted
    /\ MarksEntryUnmounted
    /\ NoOtherScreens

SpecDangling == InitDangling /\ [][NextMerit]_vars

\* a storage with a subject of max_marks 0, which the table allows and the
\* subject form (min="1") does not create
InitZeroMax ==
    /\ storageOps = 0
    /\ students = StudentsInS1
    /\ subjects = {SubjectX, SubjectZ}
    /\ marks \in TablesOver({SubjectX.id, SubjectZ.id})
    /\ MeritListMounted
    /\ MarksEntryUnmounted
    /\ NoOtherScreens

SpecZeroMax == InitZeroMax /\ [][NextMerit]_vars

-----------------------------------------------------------------------------
(* MarksEntry: operators *)

\* texts typed into a marks box
TypedTexts == {<<>>} \cup {NatToText(n) : n \in 0..MaxTyped}

\* parseInt(e.target.value) || 0
ParseIntOrZero(text) ==
    LET x == ParseNumber(text) IN IF x.nan THEN 0 ELSE x.val

\* getSubjectsForSemester
getSubjectsForSemester(semester) == {s \in meSubjects : s.semester = semester}

\* variant: a form submitted whatever its boxes hold
FormNeverChecked(student, data) == TRUE

\* variant: boxes with min="0" and no max
FormMinOnly(student, data) ==
    \A s \in getSubjectsForSemester(student.semester) :
        (s.id \in DOMAIN data /\ data[s.id] # 0) => 0 <= data[s.id]

\* the marks boxes (type="number" min="0" max={subject.max_marks}) show
\* marksData[subject.id] || ''; the browser submits the form only when every box
\* is empty or holds a number within its min and max
FormValid(student, data) ==
    \A s \in getSubjectsForSemester(student.semester) :
        (s.id \in DOMAIN data /\ data[s.id] # 0) =>
            (0 <= data[s.id] /\ data[s.id] <= s.max_marks)

\* the Save Marks button is rendered only when the semester has subjects
FormHasSubmit(student) == getSubjectsForSemester(student.semester) # {}

\* Object.entries(marksData).filter(([_, marks]) => marks > 0).map(...)
marksToInsert(student, data) ==
    { MarkRow(student.id, k, data[k], student.semester) :
        k \in {j \in DOMAIN data : data[j] > 0} }

\* the marksMap that loadStudentMarks builds from the rows it gets
marksMap(rows) ==
    [k \in {r.subject_id : r \in rows} |-> (CHOOSE r \in rows : r.subject_id = k).marks]

\* .select('*').eq('student_id', student.id).eq('semester', student.semester)
SelectMarks(B, student) ==
    {r \in BagToSet(B) : r.student_id = student.id /\ r.semester = student.semester}

\* an alert() is open: no other script of the page runs until it is dismissed
AlertOpen == subPc \in {"alertSaved", "alertError"}

MarksEntryIdle == subPc # "unmounted" /\ ~AlertOpen

-----------------------------------------------------------------------------
(* MarksEntry: actions *)

\* the answers to the three queries of loadData. (A query that fails leaves
\* its state at [], with which nothing can be selected or submitted.)
LoadData ==
    /\ MarksEntryIdle
    /\ meLoadPending
    /\ meLoadPending' = FALSE
    /\ \E f \in StudentsByName(students) : meStudents' = f
    /\ meSubjects' = subjects
    /\ UNCHANGED <<selectedStudent, marksData, inflight, subPc, subStudent, subData, subBefore, marksDataOf>>
    /\ UNCHANGED <<dbVars, mlVars, restVars, history>>

\* handleStudentSelect: the student grid is on screen while no student is selected
HandleStudentSelect ==
    /\ MarksEntryIdle
    /\ selectedStudent = NoStudent
    /\ \E i \in DOMAIN meStudents :
        /\ selectedStudent' = meStudents[i]
        /\ inflight' = inflight \cup {meStudents[i]}
    /\ UNCHANGED <<meStudents, meSubjects, meLoadPending, marksData, subPc, subStudent,
                   subData, subBefore, marksDataOf>>
    /\ UNCHANGED <<dbVars, mlVars, restVars, history>>

\* the answer to the query of loadStudentMarks: rows, no data, or an exception
LoadStudentMarks ==
    /\ MarksEntryIdle
    /\ \E student \in inflight :
        /\ inflight' = inflight \ {student}
        /\ \/ /\ marksData' = marksMap(SelectMarks(marks, student))
              /\ marksDataOf' = IF history /\ SelectMarks(marks, student) # {}
                                THEN student.id ELSE NoStudent.id
           \/ /\ marksData' = NoMarksData
              /\ marksDataOf' = NoStudent.id
           \/ UNCHANGED <<marksData, marksDataOf>>
    /\ UNCHANGED <<meStudents, meSubjects, meLoadPending, selectedStudent, subPc, subStudent,
                   subData, subBefore>>
    /\ UNCHANGED <<dbVars, mlVars, restVars, history>>

\* onChange of a marks box of the form
TypeMarks ==
    /\ MarksEntryIdle
    /\ selectedStudent # NoStudent
    /\ \E s \in getSubjectsForSemester(selectedStudent.semester), text \in TypedTexts :
        marksData' = [k \in DOMAIN marksData \cup {s.id} |->
                        IF k = s.id THEN ParseIntOrZero(text) ELSE marksData[k]]
    /\ UNCHANGED <<meStudents, meSubjects, meLoadPending, selectedStudent, inflight, subPc,
                   subStudent, subData, subBefore, marksDataOf>>
    /\ UNCHANGED <<dbVars, mlVars, restVars, history>>

\* the X and Cancel buttons of the form
CancelMarks ==
    /\ MarksEntryIdle
    /\ selectedStudent # NoStudent
    /\ selectedStudent' = NoStudent
    /\ marksData' = NoMarksData
    /\ marksDataOf' = NoStudent.id
    /\ UNCHANGED <<meStudents, meSubjects, meLoadPending, inflight, subPc, subStudent,
                   subData, subBefore>>
    /\ UNCHANGED <<dbVars, mlVars, restVars, history>>

\* handleMarksSubmit up to its first await: the delete is sent
HandleMarksSubmit ==
    /\ subPc = "idle"
    /\ selectedStudent # NoStudent
    /\ FormHasSubmit(selectedStudent)
    /\ FormValid(selectedStudent, marksData)
    /\ subStudent' = selectedStudent
    /\ subData' = marksData
    /\ subBefore' = IF history THEN SelectMarks(marks, selectedStudent) ELSE {}
    /\ subPc' = "delete"
    /\ UNCHANGED <<meStudents, meSubjects, meLoadPending, selectedStudent, marksData,
                   inflight, marksDataOf>>
    /\ UNCHANGED <<dbVars, mlVars, restVars, history>>

\* alert('Marks saved successfully!') opens
AlertSaved == subPc' = "alertSaved" /\ subBefore' = {}

\* the catch block: alert('Error saving marks. Please try again.') opens
AlertError == subPc' = "alertError" /\ UNCHANGED subBefore

\* the delete is answered; its result is not looked at. With nothing to
\* insert the handler goes on to the success alert
SubmitDeleteAnswered ==
    /\ subPc = "delete"
    /\ \/ marks' = DeleteMarks(marks, subStudent.id, subStudent.semester)
       \/ marks' = marks
    /\ IF marksToInsert(subStudent, subData) = {}
       THEN AlertSaved
       ELSE subPc' = "insert" /\ UNCHANGED subBefore
    /\ UNCHANGED <<students, subjects, storageOps>>
    /\ UNCHANGED <<meStudents, meSubjects, meLoadPending, selectedStudent, marksData,
                   inflight, subStudent, subData, marksDataOf>>
    /\ UNCHANGED <<mlVars, restVars, history>>

\* the insert is answered: stored, refused by a constraint, or failed
SubmitInsertAnswered ==
    /\ subPc = "insert"
    /\ \/ /\ MarksConstraintsOk(marks, marksToInsert(subStudent, subData))
          /\ marks' = InsertMarks(marks, marksToInsert(subStudent, subData))
          /\ AlertSaved
       \/ /\ marks' = marks
          /\ AlertError
    /\ UNCHANGED <<students, subjects, storageOps>>
    /\ UNCHANGED <<meStudents, meSubjects, meLoadPending, selectedStudent, marksData,
                   inflight, subStudent, subData, marksDataOf>>
    /\ UNCHANGED <<mlVars, restVars, history>>

\* the alert is dismissed and handleMarksSubmit runs to its end
DismissAlert ==
    /\ AlertOpen
    /\ IF subPc = "alertSaved"
       THEN /\ selectedStudent' = NoStudent
            /\ marksData' = NoMarksData
            /\ marksDataOf' = NoStudent.id
            /\ meLoadPending' = TRUE
       ELSE UNCHANGED <<selectedStudent, marksData, marksDataOf, meLoadPending>>
    /\ subPc' = "idle"
    /\ subStudent' = NoStudent
    /\ subData' = NoMarksData
    /\ subBefore' = {}
    /\ UNCHANGED <<meStudents, meSubjects, inflight>>
    /\ UNCHANGED <<dbVars, mlVars, restVars, history>>

\* the MarksEntry component right after mounting: loadData is in flight
MarksEntryMounted ==
    /\ meStudents = <<>>
    /\ meSubjects = {}
    /\ meLoadPending = TRUE
    /\ selectedStudent = NoStudent
    /\ marksData = NoMarksData
    /\ inflight = {}
    /\ subPc = "idle"
    /\ subStudent = NoStudent
    /\ subData = NoMarksData
    /\ subBefore = {}
    /\ marksDataOf = NoStudent.id

\* the student tables of the MarksEntry runs: both students in the same
\* semester, or in different ones (which of the two is in which is immaterial)
MarksEntryTables ==
    {T \in StudentTables : \E s \in T : s.id = "s1" /\ s.semester = "S1"}

InitMarks ==
    /\ storageOps = 0
    /\ students \in MarksEntryTables
    /\ subjects = AllSubjects
    /\ marks = EmptyBag
    /\ MeritListUnmounted
    /\ MarksEntryMounted
    /\ NoOtherScreensWithHistory

NextMarks ==
    \/ LoadData
    \/ HandleStudentSelect
    \/ LoadStudentMarks
    \/ TypeMarks
    \/ CancelMarks
    \/ HandleMarksSubmit
    \/ SubmitDeleteAnswered
    \/ SubmitInsertAnswered
    \/ DismissAlert

SpecMarks == InitMarks /\ [][NextMarks]_vars

-----------------------------------------------------------------------------
(* Properties of the MeritList component, checked under SpecMerit *)

Entry(i) == heap[meritList[i]]

\* position of a reference in a list of references
PositionIn(list, r) == CHOOSE i \in DOMAIN list : list[i] = r

\* position of a student in the fetched studentsData
StudentPosition(sd, id) == CHOOSE i \in DOMAIN sd : sd[i].id = id

\* the stored mark rows of a student under the student's own semester
OwnSemesterRows(s) ==
    {r \in BagToSet(marks) : r.student_id = s.id /\ r.semester = s.semester}

MaxMarksOf(r) == (CHOOSE s \in subjects : s.id = r.subject_id).max_marks

RECURSIVE TotalOfRows(_)
TotalOfRows(S) ==
    IF S = {} THEN 0
    ELSE LET r == CHOOSE r \in S : TRUE IN r.marks + TotalOfRows(S \ {r})

RECURSIVE MaxOfRows(_)
MaxOfRows(S) ==
    IF S = {} THEN 0
    ELSE LET r == CHOOSE r \in S : TRUE IN MaxMarksOf(r) + MaxOfRows(S \ {r})

MeritListSorted ==
    \A i, j \in DOMAIN meritList :
        i < j => PctLeq(Entry(j).percentage, Entry(i).percentage)

RanksAreIndexes == \A i \in DOMAIN meritList : Entry(i).rank = i

\* loadMeritList stores here
Stores == loadPc = "check" /\ loadPc' = "done"

\* C1: the list loadMeritList stores in meritList is sorted non-increasing by
\* percentage and each entry's rank is its 1-based index in that list.
C1_StoredSortedAndRanked ==
    [][Stores => (MeritListSorted /\ RanksAreIndexes)']_vars

\* a stored list of two entries that the sort had to exchange
C1_Witness ==
    /\ loadPc = "done"
    /\ Len(meritList) = 2
    /\ ~PctEq(Entry(1).percentage, Entry(2).percentage)
    /\ ~TextLeq(Entry(1).student.name, Entry(2).student.name)

\* C2: the merit list has exactly one entry for each student with at least
\* one mark row whose semester is the student's own semester, and no entry
\* for any other student.
C2_OneEntryPerMarkedStudent ==
    loadPc = "done" =>
        /\ \A i \in DOMAIN meritList : Entry(i).student \in students
        /\ \A s \in students :
            Cardinality({i \in DOMAIN meritList : Entry(i).student.id = s.id})
                = IF OwnSemesterRows(s) # {} THEN 1 ELSE 0

\* one student is listed, another has marks only under a semester label that
\* is not the student's own and is left out
C2_Witness ==
    /\ loadPc = "done"
    /\ Len(meritList) = 1
    /\ \E s \in students :
        /\ s.id # Entry(1).student.id
        /\ \E r \in BagToSet(marks) : r.student_id = s.id /\ r.semester # s.semester

\* C3: total_marks and max_marks of an entry are the sums over exactly the
\* mark rows of the student whose semester is the student's current semester;
\* the semester of the subject row plays no part.
C3_TotalsOverOwnSemesterRows ==
    loadPc = "done" =>
        \A i \in DOMAIN meritList :
            /\ Entry(i).total_marks = TotalOfRows(OwnSemesterRows(Entry(i).student))
            /\ Entry(i).max_marks = MaxOfRows(OwnSemesterRows(Entry(i).student))

\* a listed student has a counted mark for a subject of another semester and
\* an uncounted mark under a semester label the student does not carry
C3_Witness ==
    /\ loadPc = "done"
    /\ \E i \in DOMAIN meritList :
        LET s == Entry(i).student
        IN  /\ \E r \in OwnSemesterRows(s) :
                (CHOOSE x \in subjects : x.id = r.subject_id).semester # s.semester
            /\ \E r \in BagToSet(marks) : r.student_id = s.id /\ r.semester # s.semester

\* the rank loadMeritList gave an entry: meritList keeps the stored order
GlobalRank(r) == PositionIn(meritList, r)

\* C4 as claimed: every entry of the filtered list carries the rank of the
\* global ranking.
C4_FilterKeepsGlobalRank ==
    \A i \in DOMAIN filteredList :
        heap[filteredList[i]].rank = GlobalRank(filteredList[i])

\* C4 as amended: filtering renumbers rank. A surviving entry carries its
\* global rank less the number of higher-ranked entries that were filtered
\* out, so it keeps the global rank only when every entry ranked above it
\* survives as well.
C4_FilterRenumbersRank ==
    \A i \in DOMAIN filteredList :
        LET r == filteredList[i]
            gone == {q \in Range(meritList) :
                        GlobalRank(q) < GlobalRank(r) /\ q \notin Range(filteredList)}
        IN  heap[r].rank = GlobalRank(r) - Cardinality(gone)

\* the filter has removed the first of two entries
C4_Witness ==
    /\ ~effectPending
    /\ Len(meritList) = 2
    /\ filteredList = <<meritList[2]>>

\* C5 as claimed: the entries of meritList keep the rank, totals and
\* percentage loadMeritList assigned, whatever the filter controls did.
C5_MeritListUnchangedByFilter ==
    loadPc = "done" =>
        \A i \in DOMAIN meritList :
            /\ Entry(i).rank = i
            /\ Entry(i).total_marks = SumMarks(Entry(i).subjects)
            /\ Entry(i).max_marks = SumMaxMarks(Entry(i).subjects)
            /\ Entry(i).percentage = Percentage(Entry(i).total_marks, Entry(i).max_marks)

\* C7: entries with equal percentage stand in the merit list in the order in
\* which their students stand in the fetched student list.
C7_TiesKeepFetchOrder ==
    [][Stores =>
        \A i, j \in DOMAIN meritList' :
            (i < j /\ PctEq(Entry(i)'.percentage, Entry(j)'.percentage)) =>
                StudentPosition(mlStudentsData.rows, Entry(i)'.student.id)
                    < StudentPosition(mlStudentsData.rows, Entry(j)'.student.id)]_vars

\* two students with the same percentage are listed
C7_Witness ==
    /\ loadPc = "done"
    /\ Len(meritList) = 2
    /\ PctEq(Entry(1).percentage, Entry(2).percentage)

\* some read of loadMeritList returned no data
SomeReadNull == ~mlStudentsData.ok \/ ~mlMarksData.ok \/ ~mlSubjectsData.ok

\* C10: when a read of loadMeritList fails or returns no data, nothing is
\* aggregated or stored: meritList and its entries stay as they were and
\* loading becomes false.
C10_NoAggregationOnFailedRead ==
    [][((loadPc = "check" /\ SomeReadNull) \/ loadPc' = "caught") =>
        /\ meritList' = meritList
        /\ heap' = heap
        /\ filteredList' = filteredList
        /\ loading' = FALSE]_vars

\* students and marks were read and would give entries, the subjects read
\* returned no data
C10_Witness ==
    /\ loadPc = "check"
    /\ mlStudentsData.ok
    /\ mlMarksData.ok
    /\ ~mlSubjectsData.ok
    /\ CreateEntries(mlStudentsData.rows, mlMarksData.rows) # <<>>

\* the same letter, whatever the case
SameLetter(c, d) ==
    \/ c = d
    \/ \E p \in {<<"A", "a">>, <<"B", "b">>, <<"C", "c">>, <<"R", "r">>} :
            <<c, d>> = p \/ <<d, c>> = p

\* term stands somewhere in text, letter for letter but for the case
ContainsIgnoringCase(text, term) ==
    \E a \in 0..Len(text) :
        /\ a + Len(term) <= Len(text)
        /\ \A k \in 1..Len(term) : SameLetter(text[a + k], term[k])

\* an entry meets every predicate the filter controls supply
MeetsPredicates(e) ==
    /\ selectedSemester = "" \/ e.student.semester = selectedSemester
    /\ \/ searchTerm = <<>>
       \/ ContainsIgnoringCase(e.student.name, searchTerm)
       \/ ContainsIgnoringCase(e.student.roll_number, searchTerm)
    /\ minPercentage = <<>> \/ DigitsToNat(minPercentage) * e.percentage.den <= e.percentage.num
    /\ maxPercentage = <<>> \/ e.percentage.num <= DigitsToNat(maxPercentage) * e.percentage.den

\* C12: once the filter has run, filteredList is a subsequence of meritList
\* (same entries, same relative order, none added or twice) and holds just the
\* entries that meet all supplied predicates together: the semester equal, the
\* search text a case-insensitive substring of the name or of the roll number,
\* min <= percentage <= max with both bounds inclusive.
C12_FilterIsMatchingSubsequence ==
    ~effectPending =>
        /\ Range(filteredList) \subseteq Range(meritList)
        /\ \A i, j \in DOMAIN filteredList :
            i < j => PositionIn(meritList, filteredList[i]) < PositionIn(meritList, filteredList[j])
        /\ \A r \in Range(meritList) :
            r \in Range(filteredList) <=> MeetsPredicates(heap[r])

\* of two entries the filter kept the one whose name holds the search text in
\* another case and whose percentage is the max bound itself
C12_Witness ==
    /\ ~effectPending
    /\ Len(meritList) = 2
    /\ Len(filteredList) = 1
    /\ selectedSemester # ""
    /\ searchTerm = <<"b">>
    /\ maxPercentage # <<>>
    /\ PctEq(heap[filteredList[1]].percentage, PctValue(DigitsToNat(maxPercentage), 1))

NoPredicate ==
    /\ selectedSemester = ""
    /\ searchTerm = <<>>
    /\ minPercentage = <<>>
    /\ maxPercentage = <<>>

\* C13: with no predicate supplied the filter gives the full ranked list: the
\* same entries in the same order, each with the rank of the global ranking.
C13_NoPredicateIsIdentity ==
    (~effectPending /\ NoPredicate) =>
        /\ filteredList = meritList
        /\ \A i \in DOMAIN filteredList : heap[filteredList[i]].rank = i

\* the filter has run on a stored list of two entries with every control empty
C13_Witness ==
    /\ loadPc = "done"
    /\ ~effectPending
    /\ NoPredicate
    /\ Len(filteredList) = 2

\* a run of the filter effect
FilterRuns == effectPending /\ ~effectPending'

\* C21: after every run of filterMeritList each entry of filteredList has
\* rank equal to its 1-based position within filteredList.
C21_FilteredRankIsPosition ==
    [][FilterRuns =>
        \A i \in DOMAIN filteredList' : heap'[filteredList'[i]].rank = i]_vars

\* the filter has kept the second of two entries only, and it carries rank 1
C21_Witness ==
    /\ ~effectPending
    /\ Len(meritList) = 2
    /\ Len(filteredList) = 1
    /\ heap[meritList[2]].rank = 1
    /\ meritList[2] = filteredList[1]

\* C26: the run of the filter that follows the clearing of every control
\* gives the full meritList back, each entry with the rank loadMeritList
\* assigned, whatever the filters before had written.
C26_ClearRestoresListAndRanks ==
    [][(FilterRuns /\ NoPredicate) =>
        /\ filteredList' = meritList
        /\ \A i \in DOMAIN meritList : heap'[meritList[i]].rank = i]_vars

\* every control has been cleared after a filter that overwrote a rank, and
\* the filter effect is about to run
C26_Witness ==
    /\ effectPending
    /\ NoPredicate
    /\ Len(meritList) = 2
    /\ Len(filteredList) = 1
    /\ heap[meritList[2]].rank = 1

-----------------------------------------------------------------------------
(* Properties of loadMeritList on other storages *)

\* the subject reference of a mark row resolves
Resolves(r) == \E s \in subjects : s.id = r.subject_id

\* the own-semester rows of a student whose subject is there
ResolvedRows(s) == {r \in OwnSemesterRows(s) : Resolves(r)}

\* C11: a mark whose subject reference does not resolve adds nothing to the
\* totals; the other marks of the student are summed, and loadMeritList
\* completes and stores the list: one entry for each student with a mark that
\* resolves. Checked under SpecDangling.
C11_DanglingMarkSkipped ==
    [][(loadPc = "check" /\ ~SomeReadNull) =>
        /\ loadPc' = "done"
        /\ \A s \in students :
            Cardinality({i \in DOMAIN meritList' : Entry(i)'.student = s})
                = IF ResolvedRows(s) # {} THEN 1 ELSE 0
        /\ \A i \in DOMAIN meritList' :
            /\ Entry(i)'.total_marks = TotalOfRows(ResolvedRows(Entry(i)'.student))
            /\ Entry(i)'.max_marks = MaxOfRows(ResolvedRows(Entry(i)'.student))]_vars

\* the list is stored, and the student it lists has one mark that resolves and
\* one that does not
C11_Witness ==
    /\ loadPc = "done"
    /\ Len(meritList) = 1
    /\ \E r \in OwnSemesterRows(Entry(1).student) : ~Resolves(r)
    /\ Entry(1).total_marks = TotalOfRows(ResolvedRows(Entry(1).student))

\* C20: an entry whose summed max_marks is 0 has percentage exactly 0, a
\* number like any other. Checked under SpecZeroMax.
C20_ZeroMaxMarksGivesZero ==
    \A i \in DOMAIN meritList :
        Entry(i).max_marks = 0 =>
            /\ Entry(i).percentage.den > 0
            /\ Entry(i).percentage.num = 0

\* a student whose only mark, a positive one, is for the subject of max_marks 0
\* is listed next to a student with a percentage above 0
C20_Witness ==
    /\ loadPc = "done"
    /\ Len(meritList) = 2
    /\ Entry(2).max_marks = 0
    /\ Entry(2).total_marks > 0
    /\ Entry(1).percentage.num > 0

-----------------------------------------------------------------------------
(* Properties of the MarksEntry component, checked under SpecMarks *)

\* the rows of a bag in one order
RECURSIVE InSomeOrder(_)
InSomeOrder(B) ==
    IF BagToSet(B) = {} THEN <<>>
    ELSE LET r == CHOOSE r \in BagToSet(B) : TRUE
         IN  <<r>> \o InSomeOrder(B (-) SetToBag({r}))

\* the merit list loadMeritList would compute from the storage as it is (the
\* totals and the percentage of an entry do not depend on the order of the rows)
MeritListOfStorage ==
    ComputeMeritList(CHOOSE f \in StudentsByName(students) : TRUE,
                     InSomeOrder(JoinSubject(marks, subjects)))

\* C6: every merit entry with max_marks > 0 has 0 <= percentage <= 100, for
\* every set of mark rows the marks-entry screen and the storage can produce.
C6_PercentageWithinBounds ==
    LET list == MeritListOfStorage
    IN  \A i \in DOMAIN list :
            list[i].max_marks > 0 =>
                /\ PctLeq(PctValue(0, 1), list[i].percentage)
                /\ PctLeq(list[i].percentage, PctValue(100, 1))

\* marks saved through the form give one student 100% and another less
C6_Witness ==
    LET list == MeritListOfStorage
    IN  \E i, j \in DOMAIN list :
            /\ PctEq(list[i].percentage, PctValue(100, 1))
            /\ ~PctLeq(PctValue(100, 1), list[j].percentage)

\* C8: after any sequence of mark saves the marks relation holds at most one
\* row per (student_id, subject_id, semester).
C8_OneRowPerTriple ==
    \A r \in BagToSet(marks) :
        /\ CopiesIn(r, marks) = 1
        /\ \A q \in BagToSet(marks) : Triple(q) = Triple(r) => q = r

\* a save whose delete removed nothing sends an insert for a triple that is
\* still stored
C8_Witness ==
    /\ subPc = "insert"
    /\ \E r \in SelectMarks(marks, subStudent) :
        r.subject_id \in DOMAIN subData /\ subData[r.subject_id] > 0

\* the rows the form of the save under way holds: one per subject with a
\* value entered
EnteredRows ==
    { MarkRow(subStudent.id, k, subData[k], subStudent.semester) :
        k \in {j \in DOMAIN subData : subData[j] > 0} }

\* C9 as claimed: once handleMarksSubmit has succeeded, the rows stored for the
\* student and semester are exactly the entries of the form, and no row from
\* before the save remains.
C9_SaveOverwrites ==
    subPc = "alertSaved" =>
        [r \in SelectMarks(marks, subStudent) |-> marks[r]] = SetToBag(EnteredRows)

\* C15: every mark row handleMarksSubmit has written (the table starts empty)
\* has 0 <= marks <= max_marks of the subject it references.
C15_WrittenMarksWithinRange ==
    \A r \in BagToSet(marks) :
        /\ 0 <= r.marks
        /\ \E s \in subjects : s.id = r.subject_id /\ r.marks <= s.max_marks

\* a save has stored a full mark, for a subject whose box was also offered a
\* number above its max
C15_Witness ==
    /\ subPc = "alertSaved"
    /\ \E r \in BagToSet(marks) :
        /\ r.subject_id \in DOMAIN subData
        /\ r.marks = subData[r.subject_id]
        /\ r.marks = MaxMarksOf(r)
        /\ r.marks < MaxTyped

\* C27 as claimed: when handleMarksSubmit ends in its error path, the rows
\* stored for the student and semester are the rows from before the save.
C27_FailedSaveChangesNothing ==
    subPc = "alertError" => SelectMarks(marks, subStudent) = subBefore

\* C28 as claimed: the marksData that a submit takes holds no marks that were
\* loaded for a student other than the selected one.
C28_SubmitsOnlyOwnMarks ==
    [][(subPc = "idle" /\ subPc' = "delete") =>
        marksDataOf \in {NoStudent.id, selectedStudent.id}]_vars

-----------------------------------------------------------------------------
(* A MeritList screen loading while a MarksEntry screen saves *)

\* one session has the merit list loading, another the marks-entry screen open;
\* the student has a stored mark
InitLoadDuringSave ==
    /\ storageOps = 0
    /\ students = {StudentRow(b, "S1") : b \in {x \in StudentBase : x.id = "s1"}}
    /\ subjects = AllSubjects
    /\ marks = SetToBag({MarkRow("s1", SubjectX.id, 2, "S1")})
    /\ MeritListMounted
    /\ MarksEntryMounted
    /\ NoOtherScreensWithHistory

NextLoadDuringSave ==
    \/ NextMarks
    \/ ReadStudents
    \/ ReadMarks
    \/ ReadSubjects
    \/ Aggregate
    \/ FilterMeritList

SpecLoadDuringSave == InitLoadDuringSave /\ [][NextLoadDuringSave]_vars

\* the merit list shows the rows S for the student: no entry when S is empty,
\* else one entry with the total of S
ShowsRows(h, list, student, S) ==
    LET own == {i \in DOMAIN list : h[list[i]].student.id = student.id}
    IN  IF S = {} THEN own = {}
        ELSE /\ own # {}
             /\ \A i \in own : h[list[i]].total_marks = TotalOfRows(S)

\* C29 as claimed: a merit list that loadMeritList stores while a save is under
\* way shows for the student of the save either all the rows from before the
\* save or all the rows the save writes.
C29_ListSeesWholeSave ==
    [][(Stores /\ subPc \in {"delete", "insert"}) =>
        \/ ShowsRows(heap', meritList', subStudent, subBefore)
        \/ ShowsRows(heap', meritList', subStudent,
                     marksToInsert(subStudent, subData))]_vars

-----------------------------------------------------------------------------
(* Two sessions saving marks of the same student and semester *)

\* a second subject of semester S1
SubjectW == [id |-> "W", max_marks |-> 1, semester |-> "S1"]

\* the student both sessions have selected
SharedStudent == CHOOSE s \in StudentsInS1 : s.id = "s1"

\* what the form of the other session can hold at its submit: a number within
\* the box's min and max for each subject of the semester, 0 for an empty box
OtherForms ==
    {d \in [{s.id : s \in {SubjectX, SubjectW}} -> 0..SubjectX.max_marks] :
        d[SubjectW.id] <= SubjectW.max_marks}

\* handleMarksSubmit of the other session up to its first await
OtherSubmit ==
    /\ otherPc = "idle"
    /\ \E d \in OtherForms : otherData' = d
    /\ otherPc' = "delete"
    /\ UNCHANGED <<dbVars, mlVars, meStudents, meSubjects, meLoadPending, selectedStudent,
                   marksData, inflight, subPc, subStudent, subData, subBefore, marksDataOf>>
    /\ UNCHANGED <<toastVars, smVars, authVars, history>>

\* its delete is carried out
OtherDeleteAnswered ==
    /\ otherPc = "delete"
    /\ marks' = DeleteMarks(marks, SharedStudent.id, SharedStudent.semester)
    /\ otherPc' = IF marksToInsert(SharedStudent, otherData) = {} THEN "saved" ELSE "insert"
    /\ UNCHANGED <<students, subjects, storageOps, mlVars, otherData>>
    /\ UNCHANGED <<toastVars, smVars, authVars, history>>
    /\ UNCHANGED <<meStudents, meSubjects, meLoadPending, selectedStudent, marksData,
                   inflight, subPc, subStudent, subData, subBefore, marksDataOf>>

\* its insert is carried out, or refused by a constraint
OtherInsertAnswered ==
    /\ otherPc = "insert"
    /\ IF MarksConstraintsOk(marks, marksToInsert(SharedStudent, otherData))
       THEN /\ marks' = InsertMarks(marks, marksToInsert(SharedStudent, otherData))
            /\ otherPc' = "saved"
       ELSE /\ marks' = marks
            /\ otherPc' = "error"
    /\ UNCHANGED <<students, subjects, storageOps, mlVars, otherData>>
    /\ UNCHANGED <<toastVars, smVars, authVars, history>>
    /\ UNCHANGED <<meStudents, meSubjects, meLoadPending, selectedStudent, marksData,
                   inflight, subPc, subStudent, subData, subBefore, marksDataOf>>

\* the requests of this session answered as the storage answers them when
\* nothing fails on the way: the delete is carried out, the insert is refused
\* by a constraint only
DeleteCarriedOut ==
    /\ SubmitDeleteAnswered
    /\ marks' = DeleteMarks(marks, subStudent.id, subStudent.semester)

InsertCarriedOut ==
    /\ SubmitInsertAnswered
    /\ MarksConstraintsOk(marks, marksToInsert(subStudent, subData)) => subPc' = "alertSaved"

InitTwoSessions ==
    /\ storageOps = 0
    /\ students = {SharedStudent}
    /\ subjects = {SubjectX, SubjectW}
    /\ marks = EmptyBag
    /\ MeritListUnmounted
    /\ MarksEntryMounted
    /\ NoOtherScreens

NextTwoSessions ==
    \/ LoadData
    \/ HandleStudentSelect
    \/ LoadStudentMarks
    \/ TypeMarks
    \/ CancelMarks
    \/ HandleMarksSubmit
    \/ DeleteCarriedOut
    \/ InsertCarriedOut
    \/ DismissAlert
    \/ OtherSubmit
    \/ OtherDeleteAnswered
    \/ OtherInsertAnswered

SpecTwoSessions == InitTwoSessions /\ [][NextTwoSessions]_vars

\* C30 as claimed: once the saves of both sessions have finished, the rows
\* stored for the student and semester are exactly the rows one of the two
\* sessions submitted.
C30_RowsOfOneSession ==
    (AlertOpen /\ subStudent = SharedStudent /\ otherPc \in {"saved", "error"}) =>
        SelectMarks(marks, SharedStudent) \in
            { marksToInsert(SharedStudent, subData),
              marksToInsert(SharedStudent, otherData) }

-----------------------------------------------------------------------------
(* The storage under the management screens and the marks-entry screen *)

\* variant: a foreign key without ON DELETE CASCADE action
KeepMarks(B, key, id) == B

\* ON DELETE CASCADE: the marks table without the rows whose key column
\* holds the id of the deleted row
CascadeMarks(B, key, id) == [r \in {q \in BagToSet(B) : q[key] # id} |-> B[r]]

\* an id that no row and no screen holds is as good as a new uuid
FreshStudentId(id) ==
    /\ \A s \in students : s.id # id
    /\ \A i \in DOMAIN meStudents : meStudents[i].id # id
    /\ selectedStudent.id # id
    /\ subStudent.id # id
    /\ \A s \in inflight : s.id # id

FreshSubjectId(id) ==
    /\ \A s \in subjects \cup meSubjects : s.id # id
    /\ id \notin DOMAIN marksData
    /\ id \notin DOMAIN subData

\* StudentManagement.handleDelete, confirmed and answered without error: the
\* student row goes, and its mark rows with it
HandleDelete ==
    /\ storageOps < MaxStorageOps
    /\ storageOps' = storageOps + 1
    /\ \E s \in students :
        /\ students' = students \ {s}
        /\ marks' = CascadeMarks(marks, "student_id", s.id)
    /\ UNCHANGED subjects
    /\ UNCHANGED <<mlVars, meVars, restVars>>

\* StudentManagement.handleSubmit without editingStudent: a student is added
HandleSubmit ==
    /\ storageOps < MaxStorageOps
    /\ storageOps' = storageOps + 1
    /\ \E b \in StudentBase, sem \in Semesters :
        /\ FreshStudentId(b.id)
        /\ students' = students \cup {StudentRow(b, sem)}
    /\ UNCHANGED <<subjects, marks>>
    /\ UNCHANGED <<mlVars, meVars, restVars>>

\* MarksEntry.handleSubjectSubmit answered without error: a subject is added
\* and loadData is called
HandleSubjectSubmit ==
    /\ storageOps < MaxStorageOps
    /\ storageOps' = storageOps + 1
    /\ MarksEntryIdle
    /\ \E s \in AllSubjects :
        /\ FreshSubjectId(s.id)
        /\ subjects' = subjects \cup {s}
    /\ meLoadPending' = TRUE
    /\ UNCHANGED <<students, marks>>
    /\ UNCHANGED <<meStudents, meSubjects, selectedStudent, marksData, inflight, subPc,
                   subStudent, subData, subBefore, marksDataOf>>
    /\ UNCHANGED <<mlVars, restVars, history>>

\* a subject row is deleted (the policy lets any authenticated client; no
\* screen of the application does it): its mark rows go with it
DeleteSubject ==
    /\ storageOps < MaxStorageOps
    /\ storageOps' = storageOps + 1
    /\ \E s \in subjects :
        /\ subjects' = subjects \ {s}
        /\ marks' = CascadeMarks(marks, "subject_id", s.id)
    /\ UNCHANGED students
    /\ UNCHANGED <<mlVars, meVars, restVars>>

\* one student and one subject to begin with; the others can be added
InitStorage ==
    /\ storageOps = 0
    /\ students = {StudentRow(b, "S1") : b \in {x \in StudentBase : x.id = "s1"}}
    /\ subjects = {SubjectX}
    /\ marks = EmptyBag
    /\ MeritListUnmounted
    /\ MarksEntryMounted
    /\ NoOtherScreens

NextStorage ==
    \/ NextMarks
    \/ HandleDelete
    \/ HandleSubmit
    \/ HandleSubjectSubmit
    \/ DeleteSubject

SpecStorage == InitStorage /\ [][NextStorage]_vars

\* C16: no stored mark refers to a student or a subject that does not exist,
\* whatever students and subjects were added and deleted and marks saved.
C16_ReferentialIntegrity ==
    \A r \in BagToSet(marks) :
        /\ \E s \in students : s.id = r.student_id
        /\ \E s \in subjects : s.id = r.subject_id

\* a save has stored rows for a student, and the student was deleted while the
\* success alert was open: the rows are gone with the student
C16_Witness ==
    /\ subPc = "alertSaved"
    /\ marksToInsert(subStudent, subData) # {}
    /\ \A s \in students : s.id # subStudent.id
    /\ \A r \in BagToSet(marks) : r.student_id # subStudent.id

-----------------------------------------------------------------------------
(* MeritList: the exports *)

\* filteredList.slice(0, 30)
PdfMaxEntries == 30
\* y += 8
PdfLineHeight == 8
\* if (y > 280)
PdfPageBottom == 280
\* y = 20
PdfNewPageY == 20

Min(a, b) == IF a <= b THEN a ELSE b

TwoDigits(n) == <<Digits[(n \div 10) + 1], Digits[(n % 10) + 1]>>

\* Number.prototype.toFixed(2) of a percentage: the nearest hundredth, as text
toFixed2(p) ==
    LET hundredths == (200 * p.num + p.den) \div (2 * p.den)
    IN  NatToText(hundredths \div 100) \o <<".">> \o TwoDigits(hundredths % 100)

\* String.prototype.substring(0, n)
substring0(text, n) == SubSeq(text, 1, Min(n, Len(text)))

\* `merit-list-${selectedSemester || 'all'}`
FileName(sem) == IF sem = "" THEN "all" ELSE sem

\* variant: the whole list
SliceAll(list) == list

\* filteredList.slice(0, 30)
PdfSlice(list) == SubSeq(list, 1, Min(PdfMaxEntries, Len(list)))

\* variant: no page is ever full
PdfPageNeverFull(y) == FALSE

\* if (y > 280)
PdfPageFull(y) == y > PdfPageBottom

\* y of the first entry line: the headers at 35, or at 45 under the semester
\* subtitle, then y += 5 for the rule and y += 10
PdfTableTop(sem) == (IF sem # "" THEN 45 ELSE 35) + 5 + 10

\* the five doc.text calls of one entry, as one line of the document
PdfLine(entry, page, y) ==
    [page |-> page,
     y |-> y,
     rank |-> NatToText(entry.rank),
     name |-> substring0(entry.student.name, 20),
     roll_number |-> entry.student.roll_number,
     total |-> NatToText(entry.total_marks) \o <<"/">> \o NatToText(entry.max_marks),
     percentage |-> toFixed2(entry.percentage) \o <<"%">>]

\* the forEach over the sliced list: the line is drawn at y, y moves on, and a
\* full page is followed by a new one
RECURSIVE PdfLines(_, _, _, _)
PdfLines(h, list, page, y) ==
    IF list = <<>> THEN <<>>
    ELSE <<PdfLine(h[Head(list)], page, y)>> \o
         (IF PdfPageFull(y + PdfLineHeight)
          THEN PdfLines(h, Tail(list), page + 1, PdfNewPageY)
          ELSE PdfLines(h, Tail(list), page, y + PdfLineHeight))

\* one object of the array exportToExcel hands to json_to_sheet (Batch, which
\* the student rows here do not carry, left aside)
ExcelRow(entry) ==
    [Rank |-> entry.rank,
     Name |-> entry.student.name,
     RollNumber |-> entry.student.roll_number,
     Semester |-> entry.student.semester,
     TotalMarks |-> entry.total_marks,
     MaxMarks |-> entry.max_marks,
     Percentage |-> toFixed2(entry.percentage) \o <<"%">>]

\* variant: the sheet cut like the PDF
ExcelDataCapped(h, list) ==
    [i \in DOMAIN PdfSlice(list) |-> ExcelRow(h[list[i]])]

\* filteredList.map(entry => ({...}))
ExcelData(h, list) == [i \in DOMAIN list |-> ExcelRow(h[list[i]])]

\* the PDF button, enabled while filteredList has entries
ExportToPDF ==
    /\ MeritListIdle
    /\ filteredList # <<>>
    /\ download' = [kind |-> "pdf",
                    name |-> FileName(selectedSemester),
                    rows |-> PdfLines(heap, PdfSlice(filteredList), 1,
                                      PdfTableTop(selectedSemester))]
    /\ UNCHANGED <<heap, meritList, filteredList, loading, selectedSemester, searchTerm,
                   minPercentage, maxPercentage, minBox, maxBox, effectPending, loadPc,
                   mlStudentsData, mlMarksData, mlSubjectsData>>
    /\ UNCHANGED <<dbVars, meVars, restVars>>

\* the Excel button, enabled while filteredList has entries
ExportToExcel ==
    /\ MeritListIdle
    /\ filteredList # <<>>
    /\ download' = [kind |-> "xlsx",
                    name |-> FileName(selectedSemester),
                    rows |-> ExcelData(heap, filteredList)]
    /\ UNCHANGED <<heap, meritList, filteredList, loading, selectedSemester, searchTerm,
                   minPercentage, maxPercentage, minBox, maxBox, effectPending, loadPc,
                   mlStudentsData, mlMarksData, mlSubjectsData>>
    /\ UNCHANGED <<dbVars, meVars, restVars>>

\* doc.save / XLSX.writeFile: the browser takes the file
SaveDownload ==
    /\ download # NoDownload
    /\ download' = NoDownload
    /\ UNCHANGED <<heap, meritList, filteredList, loading, selectedSemester, searchTerm,
                   minPercentage, maxPercentage, minBox, maxBox, effectPending, loadPc,
                   mlStudentsData, mlMarksData, mlSubjectsData>>
    /\ UNCHANGED <<dbVars, meVars, restVars>>

\* texts typed into a number box that are not numbers
NotNumberTexts == {<<"e">>}

\* anything is typed into the Min % box
TypeMinBox == \E raw \in MinPercentTexts \cup NotNumberTexts : TypeMinPercentage(raw)

\* anything is typed into the Max % box
TypeMaxBox == \E raw \in MaxPercentTexts \cup NotNumberTexts : TypeMaxPercentage(raw)

\* the storage behind the exports: students 1..n, one in sixteen in S2, each
\* with one mark in subject X under the student's own semester
ViewStudent(i) ==
    [id |-> "v" \o ToString(i),
     name |-> (IF i % 2 = 0 THEN <<"A", "l">> ELSE <<"B", "o">>) \o TwoDigits(i),
     roll_number |-> <<"R">> \o TwoDigits(i),
     semester |-> IF i % 16 = 0 THEN "S2" ELSE "S1"]

ViewMark(i) ==
    MarkRow(ViewStudent(i).id, SubjectX.id, IF i % 4 < 2 THEN 1 ELSE 2,
            ViewStudent(i).semester)

RECURSIVE InsertByName(_, _)
InsertByName(x, sorted) ==
    IF sorted = <<>> THEN <<x>>
    ELSE IF TextLeq(Head(sorted).name, x.name)
         THEN <<Head(sorted)>> \o InsertByName(x, Tail(sorted))
         ELSE <<x>> \o sorted

\* .order('name') on a table of distinct names
RECURSIVE OrderByName(_)
OrderByName(S) ==
    IF S = {} THEN <<>>
    ELSE LET x == CHOOSE x \in S : TRUE IN InsertByName(x, OrderByName(S \ {x}))

\* the MeritList component over a storage of n students, after loadMeritList
\* has stored its list and the filter effect has run with every control empty
InitView ==
    /\ storageOps = 0
    /\ \E n \in 0..MaxEntries :
        /\ students = {ViewStudent(i) : i \in 1..n}
        /\ marks = SetToBag({ViewMark(i) : i \in 1..n})
    /\ subjects = AllSubjects
    /\ heap = ComputeMeritList(OrderByName(students),
                               InSomeOrder(JoinSubject(marks, subjects)))
    /\ meritList = [i \in DOMAIN heap |-> i]
    /\ filteredList = meritList
    /\ loading = FALSE
    /\ selectedSemester = ""
    /\ searchTerm = <<>>
    /\ minPercentage = <<>>
    /\ maxPercentage = <<>>
    /\ minBox = <<>>
    /\ maxBox = <<>>
    /\ download = NoDownload
    /\ effectPending = FALSE
    /\ loadPc = "done"
    /\ mlStudentsData = NoRows
    /\ mlMarksData = NoRows
    /\ mlSubjectsData = NoRows
    /\ MarksEntryUnmounted
    /\ NoOtherScreens

\* the semester select, the two number boxes and the exports (the search box
\* is exercised under SpecMerit)
NextView ==
    \/ FilterMeritList
    \/ SetSelectedSemester
    \/ TypeMinBox
    \/ TypeMaxBox
    \/ ClearFilters
    \/ ExportToPDF
    \/ ExportToExcel
    \/ SaveDownload

SpecView == InitView /\ [][NextView]_vars

-----------------------------------------------------------------------------
(* Properties of the filter boxes and of the exports, checked under SpecView *)

\* a box shows a text that is not a number
NotANumber(box) == box # <<>> /\ ~IsNumberText(box)

\* the bound a box supplies, with a text that is not a number read as no bound
BoundOrEmpty(box) == IF IsNumberText(box) THEN box ELSE <<>>

HundredthsOf(text) ==
    LET whole == LeadingDigits(text)
    IN  100 * DigitsToNat(whole)
            + DigitsToNat(SubSeq(text, Len(whole) + 2, Len(whole) + 3))

\* the text shows the percentage to the nearest hundredth
ShowsPercentage(text, p) ==
    LET d == 100 * p.num - HundredthsOf(text) * p.den
    IN  /\ text[Len(text)] = "%"
        /\ 2 * d <= p.den
        /\ -2 * d <= p.den

\* C17: the Excel export has one data row per entry of filteredList, in the
\* order of filteredList, each with the entry's rank, totals and percentage;
\* the empty list maps to zero rows.
C17_ExcelRowPerEntry ==
    /\ ExcelData(heap, <<>>) = <<>>
    /\ download.kind = "xlsx" =>
        /\ Len(download.rows) = Len(filteredList)
        /\ \A i \in DOMAIN filteredList :
            LET row == download.rows[i]
                entry == heap[filteredList[i]]
            IN  /\ row.RollNumber = entry.student.roll_number
                /\ row.Name = entry.student.name
                /\ row.Rank = entry.rank
                /\ row.TotalMarks = entry.total_marks
                /\ row.MaxMarks = entry.max_marks
                /\ ShowsPercentage(row.Percentage, entry.percentage)

\* a sheet of more rows than the PDF takes
C17_Witness ==
    /\ download.kind = "xlsx"
    /\ Len(download.rows) > PdfMaxEntries

\* C18: the PDF export writes min(n, 30) entry lines for a filtered list of n
\* entries: its first min(n, 30) entries, in order.
C18_PdfFirstThirty ==
    download.kind = "pdf" =>
        /\ Len(download.rows) = Min(Len(filteredList), 30)
        /\ \A i \in DOMAIN download.rows :
            LET line == download.rows[i]
                entry == heap[filteredList[i]]
            IN  /\ line.roll_number = entry.student.roll_number
                /\ DigitsToNat(line.rank) = entry.rank

\* a PDF of a filtered list of more than 30 entries
C18_Witness ==
    /\ download.kind = "pdf"
    /\ Len(filteredList) > 30
    /\ Len(download.rows) = 30

\* C19: every entry line of the PDF is drawn at y <= 280: the first at 50 (60
\* under a semester subtitle), each next one 8 further down, and after a line
\* that brings y above 280 the next line is drawn at 20 on a new page.
C19_PdfLinesOnPage ==
    download.kind = "pdf" =>
        LET lines == download.rows
        IN  /\ \A i \in DOMAIN lines : lines[i].y <= 280
            /\ lines # <<>> =>
                /\ lines[1].y = (IF selectedSemester = "" THEN 50 ELSE 60)
                /\ lines[1].page = 1
            /\ \A i \in DOMAIN lines :
                i < Len(lines) =>
                    IF lines[i].y + 8 > 280
                    THEN lines[i + 1].y = 20 /\ lines[i + 1].page = lines[i].page + 1
                    ELSE lines[i + 1].y = lines[i].y + 8 /\ lines[i + 1].page = lines[i].page

\* a PDF under a semester subtitle whose last lines stand on a second page
C19_Witness ==
    /\ download.kind = "pdf"
    /\ selectedSemester # ""
    /\ \E i \in DOMAIN download.rows :
        download.rows[i].page = 2 /\ download.rows[i].y > 20

-----------------------------------------------------------------------------
(* ToastProvider *)

MaxToasts == 3

DefaultDuration == 5000

\* the duration field of the toast handed to showToast: none, or a number
GivenDurations == {<<>>, <<0>>, <<3000>>}

ToastTypes == {"success", "error", "info"}

\* variant: the duration as given, 0 when none is given
DurationAsGiven(given) == IF given = <<>> THEN 0 ELSE given[1]

\* toast.duration || 5000
DurationOrDefault(given) ==
    IF given = <<>> \/ given[1] = 0 THEN DefaultDuration ELSE given[1]

\* prev.filter(toast => toast.id !== id)
RECURSIVE hideToast(_, _)
hideToast(list, id) ==
    IF list = <<>> THEN <<>>
    ELSE IF Head(list).id = id THEN hideToast(Tail(list), id)
    ELSE <<Head(list)>> \o hideToast(Tail(list), id)

\* showToast: the ids Math.random() gives are taken as all different
ShowToast(type, given) ==
    LET id == toastCount + 1
        newToast == [id |-> id, type |-> type, duration |-> DurationOrDefault(given)]
    IN  /\ toastCount' = id
        /\ toasts' = Append(toasts, newToast)
        /\ timers' = IF newToast.duration > 0
                      THEN timers \cup {[id |-> id, at |-> now + newToast.duration]}
                      ELSE timers
        /\ UNCHANGED now

\* some component calls showToast
CallShowToast ==
    /\ toastCount < MaxToasts
    /\ \E type \in ToastTypes, given \in GivenDurations : ShowToast(type, given)
    /\ UNCHANGED <<dbVars, mlVars, meVars, otherVars, smVars, authVars>>

\* the X button of a toast on screen: onHide(toast.id)
ClickHide ==
    /\ \E i \in DOMAIN toasts : toasts' = hideToast(toasts, toasts[i].id)
    /\ UNCHANGED <<timers, toastCount, now>>
    /\ UNCHANGED <<dbVars, mlVars, meVars, otherVars, smVars, authVars>>

\* a timer of showToast fires when its time has come: hideToast(id)
TimerFires ==
    /\ \E t \in timers :
        /\ t.at <= now
        /\ timers' = timers \ {t}
        /\ toasts' = hideToast(toasts, t.id)
    /\ UNCHANGED <<toastCount, now>>
    /\ UNCHANGED <<dbVars, mlVars, meVars, otherVars, smVars, authVars>>

\* time passes, up to the moment the next timer is due
Tick ==
    /\ timers # {}
    /\ \A t \in timers : t.at > now
    /\ now' = (CHOOSE t \in timers : \A u \in timers : t.at <= u.at).at
    /\ UNCHANGED <<toasts, timers, toastCount>>
    /\ UNCHANGED <<dbVars, mlVars, meVars, otherVars, smVars, authVars>>

InitToast ==
    /\ storageOps = 0
    /\ students = {}
    /\ subjects = {}
    /\ marks = EmptyBag
    /\ MeritListUnmounted
    /\ MarksEntryUnmounted
    /\ NoOtherScreens

NextToast ==
    \/ CallShowToast
    \/ ClickHide
    \/ TimerFires
    \/ Tick

SpecToast == InitToast /\ [][NextToast]_vars

\* a timer that is due fires, and time does not stop
FairSpecToast == SpecToast /\ WF_vars(TimerFires) /\ WF_vars(Tick)

Shown(id) == \E i \in DOMAIN toasts : toasts[i].id = id

\* the list without its i-th element
Without(list, i) == SubSeq(list, 1, i - 1) \o SubSeq(list, i + 1, Len(list))

\* C25: every toast shown is removed in the end; showToast gives it a timer
\* for its duration, 5000 ms when none or 0 was given; the timer removes it
\* when that time has passed unless it was dismissed before, and is a no-op
\* then; a removal takes that one toast out and leaves the others in order.
C25_ToastsGoAway ==
    /\ \A id \in 1..MaxToasts : Shown(id) ~> ~Shown(id)
    /\ [][toastCount' # toastCount =>
            LET newToast == toasts'[Len(toasts')]
            IN  /\ toasts' = Append(toasts, newToast)
                /\ newToast.duration > 0
                /\ timers' = timers \cup {[id |-> newToast.id, at |-> now + newToast.duration]}]_vars
    /\ [][\A t \in timers \ timers' :
            /\ t.at = now
            /\ ~Shown(t.id)'
            /\ ~Shown(t.id) => toasts' = toasts]_vars
    /\ [][Len(toasts') < Len(toasts) =>
            \E i \in DOMAIN toasts : toasts' = Without(toasts, i)]_vars

\* a toast shown at time 0 with no duration or 0 was left alone, and its
\* timer has removed it after 5000 ms
C25_Witness ==
    /\ toastCount = 1
    /\ toasts = <<>>
    /\ timers = {}
    /\ now = DefaultDuration

-----------------------------------------------------------------------------
(* StudentManagement: the form *)

FormFields == {"name", "roll_number", "semester", "batch"}

\* what can be typed into the boxes of the form
FieldTexts ==
    [name |-> {<<>>, <<" ">>, <<"B", "o">>},
     roll_number |-> {<<>>, <<" ">>, <<"R", "1">>, <<"R", "2">>},
     semester |-> {<<>>, <<" ">>, <<"S", "1">>},
     batch |-> {<<>>, <<" ">>, <<"2", "4">>}]

Whitespace == {" "}

RECURSIVE TrimStart(_)
TrimStart(text) ==
    IF text # <<>> /\ Head(text) \in Whitespace THEN TrimStart(Tail(text)) ELSE text

RECURSIVE TrimEnd(_)
TrimEnd(text) ==
    IF text # <<>> /\ text[Len(text)] \in Whitespace
    THEN TrimEnd(SubSeq(text, 1, Len(text) - 1))
    ELSE text

\* variant: the text as it is
Untrimmed(text) == text

\* String.prototype.trim
trim(text) == TrimEnd(TrimStart(text))

ErrorMessage ==
    [name |-> "Name is required",
     roll_number |-> "Roll number is required",
     semester |-> "Semester is required",
     batch |-> "Batch is required"]

\* the errors object validateForm builds
validateForm(data) ==
    [f \in {g \in FormFields : trim(data[g]) = <<>>} |-> ErrorMessage[f]]

\* the characters of a text as the string the storage holds
RECURSIVE Join(_)
Join(text) == IF text = <<>> THEN "" ELSE Head(text) \o Join(Tail(text))

\* the semester strings of the stored students, as texts of a box
Chars(semester) == IF semester = "S1" THEN <<"S", "1">> ELSE <<"S", "2">>

\* variant: a students table without UNIQUE on roll_number
RollNumberUnchecked(S, roll, id) == TRUE

\* roll_number text UNIQUE NOT NULL: no row but the written one holds the roll
RollNumberFree(S, roll, id) == \A s \in S : s.id # id => s.roll_number # roll

\* the columns of the written row that the model keeps
WrittenRow(id, data) ==
    [id |-> id, name |-> data.name, roll_number |-> data.roll_number,
     semester |-> Join(data.semester)]

\* the Add Student buttons
OpenAddForm ==
    /\ ~showAddForm
    /\ showAddForm' = TRUE
    /\ UNCHANGED <<formData, formErrors, saving, editingStudent, saveRequest>>
    /\ UNCHANGED <<dbVars, mlVars, meVars, otherVars, toastVars, authVars>>

\* handleEdit on a student of the list, which shows the stored students
HandleEdit ==
    /\ ~showAddForm
    /\ \E student \in students :
        /\ editingStudent' = student
        /\ formData' = [name |-> student.name, roll_number |-> student.roll_number,
                        semester |-> Chars(student.semester), batch |-> <<"2", "4">>]
    /\ showAddForm' = TRUE
    /\ UNCHANGED <<formErrors, saving, saveRequest>>
    /\ UNCHANGED <<dbVars, mlVars, meVars, otherVars, toastVars, authVars>>

\* onChange of a box of the form
SetFormData ==
    /\ showAddForm
    /\ \E f \in FormFields : \E text \in FieldTexts[f] :
        formData' = [formData EXCEPT ![f] = text]
    /\ UNCHANGED <<formErrors, saving, showAddForm, editingStudent, saveRequest>>
    /\ UNCHANGED <<dbVars, mlVars, meVars, otherVars, toastVars, authVars>>

\* resetForm
ResetFormState ==
    /\ formData' = NoFormData
    /\ formErrors' = NoFormErrors
    /\ showAddForm' = FALSE
    /\ editingStudent' = NoStudent

\* the Cancel and X buttons and the backdrop of the form
ResetForm ==
    /\ showAddForm
    /\ ResetFormState
    /\ UNCHANGED <<saving, saveRequest>>
    /\ UNCHANGED <<dbVars, mlVars, meVars, otherVars, toastVars, authVars>>

\* handleSubmit of the form up to its await; the submit button is disabled
\* while saving
SubmitStudentForm ==
    /\ showAddForm
    /\ ~saving
    /\ storageOps < MaxStorageOps
    /\ toastCount < MaxToasts
    /\ formErrors' = validateForm(formData)
    /\ IF DOMAIN validateForm(formData) # {}
       THEN UNCHANGED <<saving, saveRequest>>
       ELSE /\ saving' = TRUE
            /\ saveRequest' = IF editingStudent # NoStudent
                              THEN [kind |-> "update", data |-> formData,
                                    id |-> editingStudent.id]
                              ELSE [kind |-> "insert", data |-> formData,
                                    id |-> NoStudent.id]
    /\ UNCHANGED <<formData, showAddForm, editingStudent>>
    /\ UNCHANGED <<dbVars, mlVars, meVars, otherVars, toastVars, authVars>>

\* the ids a new student row can get
StudentIds == {b.id : b \in StudentBase} \cup {"s3"}

\* the storage writes what the request asks for
WriteStudent(request) ==
    IF request.kind = "update"
    THEN students' = { IF s.id = request.id THEN WrittenRow(s.id, request.data) ELSE s :
                        s \in students }
    ELSE \E id \in StudentIds :
            /\ FreshStudentId(id)
            /\ students' = students \cup {WrittenRow(id, request.data)}

\* the request is answered and handleSubmit runs to its end: written, then the
\* success toast and resetForm; or an error (the UNIQUE constraint, or the
\* request failing otherwise), then the error toast; saving is false at the end
StudentSaveAnswered ==
    /\ saveRequest # NoRequest
    /\ \/ /\ RollNumberFree(students, saveRequest.data.roll_number, saveRequest.id)
          /\ WriteStudent(saveRequest)
          /\ storageOps' = storageOps + 1
          /\ ShowToast("success", <<>>)
          /\ ResetFormState
       \/ /\ ShowToast("error", <<>>)
          /\ UNCHANGED <<students, storageOps, formData, formErrors, showAddForm,
                         editingStudent>>
    /\ saving' = FALSE
    /\ saveRequest' = NoRequest
    /\ UNCHANGED <<subjects, marks>>
    /\ UNCHANGED <<mlVars, meVars, otherVars, authVars>>

InitStudentForm ==
    /\ storageOps = 0
    /\ students = StudentsInS1
    /\ subjects = {}
    /\ marks = EmptyBag
    /\ MeritListUnmounted
    /\ MarksEntryUnmounted
    /\ NoOtherScreens

NextStudentForm ==
    \/ OpenAddForm
    \/ HandleEdit
    \/ SetFormData
    \/ ResetForm
    \/ SubmitStudentForm
    \/ StudentSaveAnswered

SpecStudentForm == InitStudentForm /\ [][NextStudentForm]_vars

RollNumbersUnique ==
    \A s, t \in students : s.roll_number = t.roll_number => s = t

\* the request under way asks for a roll number that another student has
RollNumberTaken ==
    /\ saveRequest # NoRequest
    /\ \E s \in students :
        s.id # saveRequest.id /\ s.roll_number = saveRequest.data.roll_number

\* C22: the roll numbers of the stored students stay unique; when the request
\* of handleSubmit carries a roll number another student has, its answer
\* leaves the students as they are, shows an error toast, leaves the form as
\* it is (open, with its data) and sets saving to false.
C22_DuplicateRollRejected ==
    /\ []RollNumbersUnique
    /\ [][(RollNumberTaken /\ saveRequest' = NoRequest) =>
            /\ students' = students
            /\ Len(toasts') = Len(toasts) + 1
            /\ toasts'[Len(toasts')].type = "error"
            /\ UNCHANGED <<showAddForm, formData, editingStudent>>
            /\ saving' = FALSE]_vars

\* a duplicate roll number was refused: the form is still open on it
C22_Witness ==
    /\ toasts # <<>>
    /\ toasts[Len(toasts)].type = "error"
    /\ showAddForm
    /\ ~saving
    /\ saveRequest = NoRequest
    /\ editingStudent = NoStudent
    /\ \E s \in students : s.roll_number = formData.roll_number
    /\ \A f \in FormFields : trim(formData[f]) # <<>>

Blank(text) == \A i \in DOMAIN text : text[i] = " "

\* C23: no request is sent with a name, roll number, semester or batch that is
\* empty or all spaces; when handleSubmit runs on such a form (the step that
\* sets errors), formErrors holds the message of each such field and of no
\* other, nothing is sent or written, and the form stays open with its data.
C23_BlankFieldBlocksWrite ==
    /\ [][(saveRequest' # NoRequest /\ saveRequest' # saveRequest) =>
            \A f \in FormFields : ~Blank(saveRequest'.data[f])]_vars
    /\ [][(formErrors' # formErrors /\ formErrors' # NoFormErrors) =>
            /\ DOMAIN formErrors' = {f \in FormFields : Blank(formData[f])}
            /\ \A f \in DOMAIN formErrors' : formErrors'[f] = ErrorMessage[f]
            /\ showAddForm'
            /\ UNCHANGED <<formData, saveRequest, saving, students>>]_vars

\* a submit found a name of spaces and an empty batch
C23_Witness ==
    /\ showAddForm
    /\ formData.name = <<" ">>
    /\ formData.batch = <<>>
    /\ ~Blank(formData.roll_number)
    /\ DOMAIN formErrors = {"name", "batch"}
    /\ saveRequest = NoRequest

-----------------------------------------------------------------------------
(* AuthProvider and the routes of App *)

Paths == {"/", "/login", "/x"}

Admin == "admin"

AuthEvents == {"SIGNED_IN", "SIGNED_OUT", "TOKEN_REFRESHED"}

\* variant: the element of "/" without the test of user
UnguardedElement(p, u) ==
    IF p = "/login" THEN (IF u # NoUser THEN "Navigate /" ELSE "Login")
    ELSE IF p = "/" THEN "Dashboard"
    ELSE "Navigate /"

\* the element of the route that matches the path
RouteElement(p, u) ==
    IF p = "/login" THEN (IF u # NoUser THEN "Navigate /" ELSE "Login")
    ELSE IF p = "/" THEN (IF u # NoUser THEN "Dashboard" ELSE "Navigate /login")
    ELSE "Navigate /"

\* where the <Navigate replace> elements take the location
RECURSIVE Settle(_, _)
Settle(p, u) ==
    IF RouteElement(p, u) = "Navigate /" THEN Settle("/", u)
    ELSE IF RouteElement(p, u) = "Navigate /login" THEN Settle("/login", u)
    ELSE p

\* the location after AppContent has rendered: no route is rendered while loading
Rendered(p, u, l) == IF l THEN p ELSE Settle(p, u)

\* what AppContent shows at a path
ScreenAt(p) ==
    IF authLoading THEN "Spinner" ELSE RouteElement(Settle(p, user), user)

Screen == ScreenAt(path)

\* getSession() is answered: with a session, with none, or never usefully
GetSessionAnswered ==
    /\ sessionPending
    /\ sessionPending' = FALSE
    /\ \/ /\ \E u \in {user, Admin} : user' = u
          /\ authLoading' = FALSE
       \/ UNCHANGED <<user, authLoading>>
    /\ path' = Rendered(path, user', authLoading')
    /\ UNCHANGED authCalls
    /\ UNCHANGED <<dbVars, mlVars, meVars, otherVars, toastVars, smVars>>

\* the auth client has an event for the listener (a sign-in or sign-out of
\* this or another tab, a token refresh)
AuthEventArises ==
    /\ \E e \in AuthEvents : e \notin authCalls /\ authCalls' = authCalls \cup {e}
    /\ UNCHANGED <<user, authLoading, path, sessionPending>>
    /\ UNCHANGED <<dbVars, mlVars, meVars, otherVars, toastVars, smVars>>

\* the callback of onAuthStateChange
OnAuthStateChange ==
    /\ \E e \in AuthEvents \cap authCalls :
        /\ authCalls' = authCalls \ {e}
        /\ IF e = "SIGNED_IN" THEN \E u \in {user, Admin} : user' = u
           ELSE IF e = "SIGNED_OUT" THEN user' = NoUser
           ELSE user' = user
    /\ path' = Rendered(path, user', authLoading)
    /\ UNCHANGED <<authLoading, sessionPending>>
    /\ UNCHANGED <<dbVars, mlVars, meVars, otherVars, toastVars, smVars>>

\* the toasts the calls under way may still show fit the bound
ToastsLeft == toastCount + Cardinality(authCalls \cap {"login", "logout"}) < MaxToasts

\* the login form is submitted; the logout button of the dashboard is clicked
AuthCall ==
    /\ ToastsLeft
    /\ \/ Screen = "Login" /\ "login" \notin authCalls /\ authCalls' = authCalls \cup {"login"}
       \/ Screen = "Dashboard" /\ "logout" \notin authCalls /\ authCalls' = authCalls \cup {"logout"}
    /\ UNCHANGED <<user, authLoading, path, sessionPending>>
    /\ UNCHANGED <<dbVars, mlVars, meVars, otherVars, toastVars, smVars>>

\* login after its await: an error, a user, neither, or an exception
LoginAnswered ==
    /\ "login" \in authCalls
    /\ authCalls' = authCalls \ {"login"}
    /\ \/ ShowToast("error", <<>>) /\ user' = user
       \/ ShowToast("success", <<>>) /\ user' = Admin
       \/ UNCHANGED <<user, toastVars>>
    /\ path' = Rendered(path, user', authLoading)
    /\ UNCHANGED <<authLoading, sessionPending>>
    /\ UNCHANGED <<dbVars, mlVars, meVars, otherVars, smVars>>

\* logout after its await: signOut has returned, or has thrown
LogoutAnswered ==
    /\ "logout" \in authCalls
    /\ authCalls' = authCalls \ {"logout"}
    /\ \/ ShowToast("info", <<>>) /\ user' = NoUser
       \/ ShowToast("error", <<>>) /\ user' = user
    /\ path' = Rendered(path, user', authLoading)
    /\ UNCHANGED <<authLoading, sessionPending>>
    /\ UNCHANGED <<dbVars, mlVars, meVars, otherVars, smVars>>

\* the page is opened at a path: every provider mounts afresh
OpenUrl ==
    /\ \E p \in Paths : path' = p
    /\ user' = NoUser
    /\ authLoading' = TRUE
    /\ sessionPending' = TRUE
    /\ authCalls' = {}
    /\ toasts' = <<>>
    /\ timers' = {}
    /\ UNCHANGED <<toastCount, now>>
    /\ UNCHANGED <<dbVars, mlVars, meVars, otherVars, smVars>>

InitAuth ==
    /\ storageOps = 0
    /\ students = {}
    /\ subjects = {}
    /\ marks = EmptyBag
    /\ MeritListUnmounted
    /\ MarksEntryUnmounted
    /\ OtherSessionIdle
    /\ NoToasts
    /\ StudentFormClosed
    /\ history = FALSE
    /\ user = NoUser
    /\ authLoading = TRUE
    /\ path \in Paths
    /\ sessionPending = TRUE
    /\ authCalls = {}

NextAuth ==
    \/ GetSessionAnswered
    \/ AuthEventArises
    \/ OnAuthStateChange
    \/ AuthCall
    \/ LoginAnswered
    \/ LogoutAnswered
    \/ OpenUrl

SpecAuth == InitAuth /\ [][NextAuth]_vars

DashboardUnreachable == \A p \in Paths : ScreenAt(p) # "Dashboard"

\* logout has run past its await without an exception
LoggedOut ==
    /\ "logout" \in authCalls /\ "logout" \notin authCalls'
    /\ toastCount' # toastCount
    /\ toasts'[Len(toasts')].type = "info"

\* the listener has been handed SIGNED_OUT
SignedOut ==
    "SIGNED_OUT" \in authCalls /\ "SIGNED_OUT" \notin authCalls'

====
